---- MODULE Spec2Model ----
(***************************************************************************)
(* Multi-source sewer pipe extraction (info757/estimai-production):        *)
(*   app/vision/vector_extract.py      vector text recognizer              *)
(*   app/vision/ocr_extract.py         OCR recognizer, repairs, recovery   *)
(*   app/vision/text_based_extract.py  dedup, merge, aggregation           *)
(*                                                                         *)
(* Text is a sequence of one-character strings.  The typographic inch      *)
(* marks are the one-element strings "RDQUO" (U+201D), "DPRIME" (U+2033)   *)
(* and "LDQUO" (U+201C).  Python's None is the empty tuple for text fields  *)
(* (no token the recognizers produce is the empty string) and NoLen for a  *)
(* length.  A length is held in tenths of a foot, so float("150.5") is     *)
(* 1505; the text of the model carries at most one decimal digit.          *)
(***************************************************************************)
EXTENDS Integers, Sequences, FiniteSets, TLC

None == <<>>
NoLen == 0 - 1

\* ------------------------------------------------------------------------
\* Characters (Python re: \d, \s, \w on the ASCII text of a drawing)
\* ------------------------------------------------------------------------
Digits == {"0", "1", "2", "3", "4", "5", "6", "7", "8", "9"}
UpperLetters == {"A", "B", "C", "D", "E", "F", "G", "H", "I", "J", "K", "L", "M",
                 "N", "O", "P", "Q", "R", "S", "T", "U", "V", "W", "X", "Y", "Z"}
LowerLetters == {"a", "b", "c", "d", "e", "f", "g", "h", "i", "j", "k", "l", "m",
                 "n", "o", "p", "q", "r", "s", "t", "u", "v", "w", "x", "y", "z"}
UpperOf == [c \in LowerLetters |->
              CASE c = "a" -> "A" [] c = "b" -> "B" [] c = "c" -> "C" [] c = "d" -> "D"
                [] c = "e" -> "E" [] c = "f" -> "F" [] c = "g" -> "G" [] c = "h" -> "H"
                [] c = "i" -> "I" [] c = "j" -> "J" [] c = "k" -> "K" [] c = "l" -> "L"
                [] c = "m" -> "M" [] c = "n" -> "N" [] c = "o" -> "O" [] c = "p" -> "P"
                [] c = "q" -> "Q" [] c = "r" -> "R" [] c = "s" -> "S" [] c = "t" -> "T"
                [] c = "u" -> "U" [] c = "v" -> "V" [] c = "w" -> "W" [] c = "x" -> "X"
                [] c = "y" -> "Y" [] c = "z" -> "Z"]
LowerOf == [c \in UpperLetters |-> CHOOSE l \in LowerLetters : UpperOf[l] = c]
DigitVal == [c \in Digits |->
               CASE c = "0" -> 0 [] c = "1" -> 1 [] c = "2" -> 2 [] c = "3" -> 3
                 [] c = "4" -> 4 [] c = "5" -> 5 [] c = "6" -> 6 [] c = "7" -> 7
                 [] c = "8" -> 8 [] c = "9" -> 9]

IsDigit(c) == c \in Digits
Spaces == {" ", "\t", "\n"}
IsSpace(c) == c \in Spaces
IsLetter(c) == c \in UpperLetters \cup LowerLetters
IsWordChar(c) == IsLetter(c) \/ IsDigit(c) \/ c = "_"
UpChar(c) == IF c \in LowerLetters THEN UpperOf[c] ELSE c
LowChar(c) == IF c \in UpperLetters THEN LowerOf[c] ELSE c

\* str.upper() / str.lower()
upper(s) == [i \in 1..Len(s) |-> UpChar(s[i])]
lower(s) == [i \in 1..Len(s) |-> LowChar(s[i])]

\* s[i..j] as Python's s[i-1:j]; empty when j < i
Slice(s, i, j) == IF j < i THEN <<>> ELSE SubSeq(s, i, j)

\* "lit" occurs in s starting at position i (case-sensitive)
LitAt(s, i, lit) ==
    /\ i >= 1
    /\ i + Len(lit) - 1 <= Len(s)
    /\ \A k \in 1..Len(lit) : s[i + k - 1] = lit[k]

\* the same under re.I
LitAtI(s, i, lit) == LitAt(upper(s), i, upper(lit))

\* Python's `lit in s`
Contains(s, lit) == \E i \in 1..Len(s) : LitAt(s, i, lit)

\* the last position of the maximal run of characters of the set C starting
\* at i; i - 1 when s[i] is not in C.  RunEndNot: the same for characters
\* outside C.
RECURSIVE RunEnd(_, _, _)
RunEnd(s, i, C) ==
    IF i <= Len(s) /\ s[i] \in C THEN RunEnd(s, i + 1, C) ELSE i - 1
RECURSIVE RunEndNot(_, _, _)
RunEndNot(s, i, C) ==
    IF i <= Len(s) /\ s[i] \notin C THEN RunEndNot(s, i + 1, C) ELSE i - 1

\* \b after position j (between s[j] and s[j+1]), j >= 1 and s[j] a word char
WordEndsAt(s, j) == j = Len(s) \/ ~IsWordChar(s[j + 1])
\* \b before position i, s[i] a word character
WordStartsAt(s, i) == i = 1 \/ ~IsWordChar(s[i - 1])

\* " ".join(text.split()): strip, and collapse each whitespace run to a space
RECURSIVE CollapseFrom(_, _, _)
CollapseFrom(s, i, acc) ==
    IF i > Len(s) THEN acc
    ELSE IF IsSpace(s[i])
         THEN LET e == RunEnd(s, i, Spaces)
              IN  IF acc = <<>> \/ e = Len(s)
                  THEN CollapseFrom(s, e + 1, acc)
                  ELSE CollapseFrom(s, e + 1, Append(acc, " "))
         ELSE CollapseFrom(s, i + 1, Append(acc, s[i]))
Collapse(s) == CollapseFrom(s, 1, <<>>)

\* text.split(): the whitespace-separated words of s
RECURSIVE SplitFrom(_, _, _)
SplitFrom(s, i, acc) ==
    IF i > Len(s) THEN acc
    ELSE IF IsSpace(s[i]) THEN SplitFrom(s, i + 1, acc)
         ELSE LET e == RunEndNot(s, i, Spaces)
              IN  SplitFrom(s, e + 1, Append(acc, Slice(s, i, e)))
split(s) == SplitFrom(s, 1, <<>>)

\* float() of a matched "\d+(?:\.\d+)?" text, in tenths of a foot
RECURSIVE IntOf(_, _, _)
IntOf(s, i, acc) ==
    IF i > Len(s) \/ ~IsDigit(s[i]) THEN acc
    ELSE IntOf(s, i + 1, acc * 10 + DigitVal[s[i]])
FloatTenths(s) ==
    LET e == RunEnd(s, 1, Digits)
        whole == IntOf(s, 1, 0)
    IN  IF e + 2 <= Len(s) /\ s[e + 1] = "." /\ IsDigit(s[e + 2])
        THEN whole * 10 + DigitVal[s[e + 2]]
        ELSE whole * 10

\* the least element of a non-empty set of positions, 0 for the empty set
MinPos(S) == IF S = {} THEN 0 ELSE CHOOSE x \in S : \A y \in S : x <= y

\* \b between s[j] and s[j+1], 0 <= j <= Len(s)
Boundary(s, j) ==
    LET before == j >= 1 /\ j <= Len(s) /\ IsWordChar(s[j])
        after == j + 1 >= 1 /\ j + 1 <= Len(s) /\ IsWordChar(s[j + 1])
    IN  before # after

\* A match is [start, gend, end]: the match is s[start..end] and its first
\* group ends at gend.  NoMatch (start = 0) is Python's None.
NoMatch == [start |-> 0, gend |-> 0, end |-> 0]
Matched(m) == m.start # 0
group0(s, m) == Slice(s, m.start, m.end)
group1(s, m) == Slice(s, m.start, m.gend)

\* the first match of a sequence of attempts: search tries the positions of
\* the text from the left, an alternation its branches in order
FirstOf(ms) ==
    LET hits == {k \in 1..Len(ms) : Matched(ms[k])}
    IN  IF hits = {} THEN NoMatch ELSE ms[MinPos(hits)]

\* ------------------------------------------------------------------------
\* vector_extract.py: the token patterns
\* ------------------------------------------------------------------------
\* LENGTH_RE = (?P<len>\d+(?:\.\d+)?)\s*LF\b, re.I
LENGTH_RE_at(s, i) ==
    IF ~(i <= Len(s) /\ IsDigit(s[i])) THEN NoMatch
    ELSE LET e1 == RunEnd(s, i, Digits)
             e2 == IF e1 + 2 <= Len(s) /\ s[e1 + 1] = "." /\ IsDigit(s[e1 + 2])
                   THEN RunEnd(s, e1 + 2, Digits) ELSE e1
             w == RunEnd(s, e2 + 1, Spaces)
         IN  IF LitAtI(s, w + 1, <<"L", "F">>) /\ Boundary(s, w + 2)
             THEN [start |-> i, gend |-> e2, end |-> w + 2]
             ELSE NoMatch
LENGTH_RE_search(s) == FirstOf([i \in 1..Len(s) |-> LENGTH_RE_at(s, i)])

\* (?P<dia>\d{1,2})\s*(mark), for the set of inch marks the pattern lists
DiameterAt(s, i, marks) ==
    IF ~(i <= Len(s) /\ IsDigit(s[i])) THEN NoMatch
    ELSE LET d == IF i + 1 <= Len(s) /\ IsDigit(s[i + 1]) THEN i + 1 ELSE i
             w == RunEnd(s, d + 1, Spaces)
         IN  IF w + 1 <= Len(s) /\ s[w + 1] \in marks
             THEN [start |-> i, gend |-> d, end |-> w + 1]
             ELSE NoMatch

\* DIAMETER_RE of vector_extract.py: the ASCII mark and three typographic ones
VectorInchMarks == {"\"", "RDQUO", "DPRIME", "LDQUO"}
VECTOR_DIAMETER_RE_at(s, i) == DiameterAt(s, i, VectorInchMarks)
VECTOR_DIAMETER_RE_search(s) == FirstOf([i \in 1..Len(s) |-> VECTOR_DIAMETER_RE_at(s, i)])

\* one alternative of MATERIAL_RE that is a plain word: \bWORD\b
WordAt(s, i, w) ==
    IF LitAtI(s, i, w) /\ Boundary(s, i - 1) /\ Boundary(s, i + Len(w) - 1)
    THEN [start |-> i, gend |-> i + Len(w) - 1, end |-> i + Len(w) - 1]
    ELSE NoMatch
\* \bD\.I\.P\.?\b (and D\.1\.P\.?): the optional dot is taken only when a word
\* character follows it
DottedAt(s, i, w) ==
    LET e == i + Len(w) - 1
    IN  IF ~(LitAtI(s, i, w) /\ Boundary(s, i - 1)) THEN NoMatch
        ELSE IF e + 1 <= Len(s) /\ s[e + 1] = "." /\ Boundary(s, e + 1)
             THEN [start |-> i, gend |-> e + 1, end |-> e + 1]
             ELSE IF Boundary(s, e) THEN [start |-> i, gend |-> e, end |-> e]
                  ELSE NoMatch
\* \bDUCTILE\s*IRON\b
DuctileIronAt(s, i) ==
    IF ~(LitAtI(s, i, <<"D", "U", "C", "T", "I", "L", "E">>) /\ Boundary(s, i - 1)) THEN NoMatch
    ELSE LET w == RunEnd(s, i + 7, Spaces)
         IN  IF LitAtI(s, w + 1, <<"I", "R", "O", "N">>) /\ Boundary(s, w + 4)
             THEN [start |-> i, gend |-> w + 4, end |-> w + 4]
             ELSE NoMatch
\* MATERIAL_RE = \b(PVC|DIP|D\.I\.P\.?|D\.1\.P\.?|DUCTILE\s*IRON|RCP|HDPE|PNY)\b
VECTOR_MATERIAL_RE_at(s, i) ==
    FirstOf(<<WordAt(s, i, <<"P", "V", "C">>), WordAt(s, i, <<"D", "I", "P">>),
              DottedAt(s, i, <<"D", ".", "I", ".", "P">>), DottedAt(s, i, <<"D", ".", "1", ".", "P">>),
              DuctileIronAt(s, i), WordAt(s, i, <<"R", "C", "P">>),
              WordAt(s, i, <<"H", "D", "P", "E">>), WordAt(s, i, <<"P", "N", "Y">>)>>)
VECTOR_MATERIAL_RE_search(s) == FirstOf([i \in 1..Len(s) |-> VECTOR_MATERIAL_RE_at(s, i)])

\* the canonical materials
PVC == <<"P", "V", "C">>
DIP == <<"D", "I", "P">>
RCP == <<"R", "C", "P">>
HDPE == <<"H", "D", "P", "E">>

\* str.replace(c, '') for every c of a set
Without(s, cs) == SelectSeq(s, LAMBDA c : c \notin cs)

\* _normalize_material of vector_extract.py
vector_normalize_material(token) ==
    IF token = None THEN None
    ELSE LET t == Without(upper(token), {".", " ", "-"})
         IN  IF t \in {<<"D", "I", "P">>, <<"D", "U", "C", "T", "I", "L", "E", "I", "R", "O", "N">>, <<"D", "U", "C", "T", "I", "L", "E", "I", "R", "O", "N", "P", "I", "P", "E">>, <<"D", "1", "P">>,
                       <<"D", "|", "P">>, <<"D", "I", "P", "P", "I", "P", "E">>, <<"S", "I", "P">>, <<"D", "I">>, <<"D", "I", "P", "P">>}
             THEN DIP
             ELSE IF t \in {<<"P", "V", "C">>, <<"P", "N", "Y">>, <<"P", "V", "C", ",">>, <<"P", "V", "C", "=">>, <<"P", "V", "G">>, <<"P", "Y", "C">>}
                  THEN PVC
                  ELSE IF t \in {<<"R", "C", "P">>, <<"R", "C", "P", "P">>} THEN RCP
                       ELSE IF t = <<"H", "D", "P", "E">> THEN HDPE
                            ELSE upper(token)

\* _normalize_material of ocr_extract.py: no hyphen is removed and the table is
\* the shorter one
ocr_normalize_material(token) ==
    LET t == Without(upper(token), {".", " "})
    IN  IF t \in {<<"D", "I", "P">>, <<"D", "U", "C", "T", "I", "L", "E", "I", "R", "O", "N">>, <<"D", "U", "C", "T", "I", "L", "E", "I", "R", "O", "N", "P", "I", "P", "E">>, <<"D", "1", "P">>, <<"D", "|", "P">>, <<"D", "I", "P", "P", "I", "P", "E">>, <<"S", "I", "P">>}
        THEN DIP
        ELSE IF t = <<"P", "V", "C">> THEN PVC
             ELSE IF t = <<"R", "C", "P">> THEN RCP
                  ELSE IF t = <<"H", "D", "P", "E">> THEN HDPE
                       ELSE IF token # None THEN upper(token) ELSE token

\* has_dip_indicator and the later DIP check of the vector extractor
VectorDipIndicator(text) ==
    LET text_upper == upper(text)
    IN  \/ Contains(text_upper, <<"D", "U", "C", "T", "I", "L", "E">>) /\ Contains(text_upper, <<"I", "R", "O", "N">>)
        \/ Contains(text_upper, <<"D", ".", "I", ".", "P">>) \/ Contains(text_upper, <<"D", ".", "1", ".", "P">>)
        \/ Contains(text_upper, <<"S", "I", "P">>)

\* A span of the page is its text; a VectorRun is
\* [cls, raw, length_ft, diameter_text, material] (length_text, slope_text and
\* bbox are carried by the code and read by nothing downstream).
NoRun == [cls |-> "none"]

\* a span scanner without the length gate of lines 110-113
VectorRunOfSpan_NoLengthGate(span_text) ==
    LET text == Collapse(span_text)
        m_len == LENGTH_RE_search(text)
        m_dia == VECTOR_DIAMETER_RE_search(text)
        m_mat == VECTOR_MATERIAL_RE_search(text)
    IN  IF ~(Matched(m_dia) \/ Matched(m_mat)) THEN NoRun
        ELSE [cls |-> "VectorRun",
              raw |-> text,
              length_ft |-> IF Matched(m_len) THEN FloatTenths(group1(text, m_len))
                            ELSE NoLen,
              diameter_text |-> IF Matched(m_dia) THEN group0(text, m_dia)
                                ELSE None,
              material |-> IF Matched(m_mat)
                           THEN vector_normalize_material(group1(text, m_mat))
                           ELSE None]

\* the body of the loop over spans for one span: the VectorRun it appends, or
\* NoRun when the span is skipped
VectorRunOfSpan(span_text) ==
    LET text == Collapse(span_text)
        m_len == LENGTH_RE_search(text)
        m_dia == VECTOR_DIAMETER_RE_search(text)
        m_mat == VECTOR_MATERIAL_RE_search(text)
        material_raw == IF Matched(m_mat) THEN group1(text, m_mat) ELSE None
        material0 == IF material_raw # None
                     THEN vector_normalize_material(material_raw) ELSE None
        material == IF material0 = None /\ VectorDipIndicator(text)
                    THEN DIP ELSE material0
    IN  IF ~Matched(m_len) THEN NoRun
        ELSE IF ~(Matched(m_dia) \/ Matched(m_mat)) /\ ~VectorDipIndicator(text)
             THEN NoRun
             ELSE [cls |-> "VectorRun",
                   raw |-> text,
                   length_ft |-> FloatTenths(group1(text, m_len)),
                   diameter_text |-> IF Matched(m_dia) THEN group0(text, m_dia)
                                     ELSE None,
                   material |-> material]

\* _page_text_spans: blocks whose text is blank are dropped, the rest stripped
RECURSIVE Strip(_)
Strip(s) ==
    IF s = <<>> THEN s
    ELSE IF IsSpace(s[1]) THEN Strip(Tail(s))
         ELSE IF IsSpace(s[Len(s)]) THEN Strip(SubSeq(s, 1, Len(s) - 1))
              ELSE s
RECURSIVE page_text_spans(_)
page_text_spans(blocks) ==
    IF blocks = <<>> THEN <<>>
    ELSE IF Strip(blocks[1]) = <<>> THEN page_text_spans(Tail(blocks))
         ELSE <<Strip(blocks[1])>> \o page_text_spans(Tail(blocks))

\* extract_profile_runs_from_text: the runs of the page's blocks, in order
RECURSIVE VectorRunsOfSpans(_)
VectorRunsOfSpans(spans) ==
    IF spans = <<>> THEN <<>>
    ELSE LET Kept(r) == IF r = NoRun THEN <<>> ELSE <<r>>
         IN  Kept(VectorRunOfSpan(spans[1])) \o VectorRunsOfSpans(Tail(spans))
extract_profile_runs_from_text(blocks) == VectorRunsOfSpans(page_text_spans(blocks))

\* ------------------------------------------------------------------------
\* ocr_extract.py: ocr_profile_runs_strict_segments
\* ------------------------------------------------------------------------
\* the class [0-9iIlLoO] of the repair patterns
OcrDigitClass == Digits \cup {"i", "I", "l", "L", "o", "O"}

\* DIAMETER_RE of ocr_extract.py: the ASCII inch mark only
OCR_DIAMETER_RE_at(s, i) == DiameterAt(s, i, {"\""})
OCR_DIAMETER_RE_search(s) == FirstOf([i \in 1..Len(s) |-> OCR_DIAMETER_RE_at(s, i)])

\* ([0-9iIlLoO]{2,})(LF|LF|1F|IF|LF)([^A-Z]|$), re.I.  F is outside the class,
\* so the marker is the last character of the run and the F after it; group 1
\* (start..gend) is the run without its last character.
GluedLfAt(s, i) ==
    LET e == RunEnd(s, i, OcrDigitClass)
    IN  IF /\ e >= i + 2
           /\ UpChar(s[e]) \in {"L", "1", "I"}
           /\ e + 1 <= Len(s) /\ UpChar(s[e + 1]) = "F"
           /\ (e + 2 > Len(s) \/ ~IsLetter(s[e + 2]))
        THEN [start |-> i, gend |-> e - 1,
              end |-> IF e + 2 > Len(s) THEN e + 1 ELSE e + 2]
        ELSE NoMatch
\* re.sub(.., lambda m: f"{m.group(1)} LF {m.group(3) if m.group(3) else ''}", norm)
RECURSIVE SeparateGluedLf(_, _, _)
SeparateGluedLf(s, i, acc) ==
    IF i > Len(s) THEN acc
    ELSE LET m == GluedLfAt(s, i)
         IN  IF Matched(m)
             THEN SeparateGluedLf(s, m.end + 1,
                      acc \o group1(s, m) \o <<" ", "L", "F", " ">>
                          \o Slice(s, m.gend + 3, m.end))
             ELSE SeparateGluedLf(s, i + 1, Append(acc, s[i]))

\* LF[_\s]*(\d+)" matched from i: the digits are start..gend, the match ends at end
AttachedDiameterAt(s, i) ==
    IF ~LitAt(s, i, <<"L", "F">>) THEN NoMatch
    ELSE LET w == RunEnd(s, i + 2, Spaces \cup {"_"})
             d == RunEnd(s, w + 1, Digits)
         IN  IF d >= w + 1 /\ d + 1 <= Len(s) /\ s[d + 1] = "\""
             THEN [start |-> w + 1, gend |-> d, end |-> d + 1]
             ELSE NoMatch
\* re.sub(r'LF[_\s]*(\d+)"', r'LF \1"', norm)
RECURSIVE SeparateDiameter(_, _, _)
SeparateDiameter(s, i, acc) ==
    IF i > Len(s) THEN acc
    ELSE LET m == AttachedDiameterAt(s, i)
         IN  IF Matched(m)
             THEN SeparateDiameter(s, m.end + 1,
                      acc \o <<"L", "F", " ">> \o group1(s, m) \o <<"\"">>)
             ELSE SeparateDiameter(s, i + 1, Append(acc, s[i]))

\* ([0-9iIlLoO]{2,})\s+LF : group 1 is start..gend
SpacedLfAt(s, i) ==
    LET e == RunEnd(s, i, OcrDigitClass)
        w == RunEnd(s, e + 1, Spaces)
    IN  IF e >= i + 1 /\ w >= e + 1 /\ LitAt(s, w + 1, <<"L", "F">>)
        THEN [start |-> i, gend |-> e, end |-> w + 2]
        ELSE NoMatch
\* a repair that leaves the letters as they are
FixDigit_Unrepaired(c) == c
\* fix_ocr_digits: i, I, l, L -> 1 and o, O -> 0
FixDigit(c) == IF c \in {"i", "I", "l", "L"} THEN "1"
               ELSE IF c \in {"o", "O"} THEN "0" ELSE c
fix_ocr_digits(num_str) == [k \in 1..Len(num_str) |-> FixDigit(num_str[k])]
\* re.sub(r'([0-9iIlLoO]{2,})\s+LF', fix_ocr_digits, norm)
RECURSIVE FixDigitsBeforeLf(_, _, _)
FixDigitsBeforeLf(s, i, acc) ==
    IF i > Len(s) THEN acc
    ELSE LET m == SpacedLfAt(s, i)
         IN  IF Matched(m)
             THEN FixDigitsBeforeLf(s, m.end + 1,
                      acc \o fix_ocr_digits(group1(s, m)) \o <<" ", "L", "F">>)
             ELSE FixDigitsBeforeLf(s, i + 1, Append(acc, s[i]))

\* the three rewrites of a line, in the code's order (lines 141-156, 234-242)
OcrRepair(line) ==
    LET n0 == upper(line)
        n1 == SeparateGluedLf(n0, 1, <<>>)
        n2 == SeparateDiameter(n1, 1, <<>>)
    IN  FixDigitsBeforeLf(n2, 1, <<>>)

\* re.search(r'(\d+)\s*LF', norm): the MockMatch fallback
DigitsLfAt(s, i) ==
    LET e == RunEnd(s, i, Digits)
        w == RunEnd(s, e + 1, Spaces)
    IN  IF e >= i /\ LitAt(s, w + 1, <<"L", "F">>)
        THEN [start |-> i, gend |-> e, end |-> w + 2]
        ELSE NoMatch
\* mlen: LENGTH_RE.search(norm), else the fallback; NoMatch when both fail
OcrLengthMatch(norm) ==
    LET m == LENGTH_RE_search(norm)
    IN  IF Matched(m) THEN m ELSE FirstOf([i \in 1..Len(norm) |-> DigitsLfAt(norm, i)])

\* mat of direct scanning (lines 181-185)
OcrDirectMaterial(norm) ==
    IF \/ Contains(norm, <<"D", "I", "P">>) \/ Contains(norm, <<"D", ".", "I", ".", "P">>)
       \/ Contains(norm, <<"D", ".", "1", ".", "P">>) \/ Contains(norm, <<"D", "U", "C", "T", "I", "L", "E">>)
       \/ Contains(norm, <<"S", "I", "P">>) \/ Contains(norm, <<"I", "R", "O", "N">>)
       \/ (Contains(norm, <<"D", "I">>)
             /\ (Contains(norm, <<"P", "I", "P", "E">>) \/ Contains(norm, <<"I", "R", "O", "N">>)))
    THEN DIP
    ELSE IF Contains(norm, <<"P", "V", "C">>) \/ Contains(norm, <<"P", "N", "Y">>) THEN PVC
         ELSE None

\* mat of the recovery step (lines 259-263)
OcrRecoveryMaterial(norm) ==
    IF \E x \in {<<"D", "I", "P">>, <<"D", ".", "I", ".", "P">>, <<"D", "I">>, <<"D", "U", "C", "T", "I", "L", "E">>, <<"I", "R", "O", "N">>, <<"S", "I", "P">>} :
           Contains(norm, x)
    THEN DIP
    ELSE IF Contains(norm, <<"P", "V", "C">>) \/ Contains(norm, <<"P", "N", "Y">>) THEN PVC
         ELSE None

\* a line scanner that asks for a length only, not for a diameter or material
OcrRunOfLine_LengthOnly(line) ==
    LET norm == OcrRepair(line)
        mlen == OcrLengthMatch(norm)
        mdia == OCR_DIAMETER_RE_search(norm)
    IN  IF ~Matched(mlen) THEN NoRun
        ELSE [cls |-> "dict",
              raw |-> line,
              length_ft |-> FloatTenths(group1(norm, mlen)),
              diameter_text |-> IF Matched(mdia) THEN group0(norm, mdia) ELSE None,
              material |-> OcrDirectMaterial(norm)]

\* An OCR run is the dict [cls, raw, length_ft, diameter_text, material]
\* (length_text and slope_text are carried and read by nothing downstream).
\* The body of the direct-scanning loop for one line: the dict it appends, or
\* NoRun when the line is skipped.
OcrRunOfLine(line) ==
    LET Scanned(norm) ==
            LET mlen == OcrLengthMatch(norm)
                mdia == OCR_DIAMETER_RE_search(norm)
                mat == OcrDirectMaterial(norm)
            IN  IF ~Contains(norm, <<"L", "F">>) THEN NoRun
                ELSE IF ~(Matched(mlen) /\ (Matched(mdia) \/ mat # None))
                     THEN NoRun
                     ELSE [cls |-> "dict",
                           raw |-> line,
                           length_ft |-> FloatTenths(group1(norm, mlen)),
                           diameter_text |-> IF Matched(mdia)
                                             THEN group0(norm, mdia) ELSE None,
                           material |-> mat]
    IN  Scanned(OcrRepair(line))

\* |a - b| of two lengths
AbsDiff(a, b) == IF a >= b THEN a - b ELSE b - a

\* "within 5" of the recovery step's duplicate test, in tenths of a foot
RecoveryTolTenths == 5 * 10

\* a re-parse that does not compare the candidate with the runs collected
OcrRecoveredRun_NoDuplicateTest(candidate_line, runs) ==
    LET Scanned(norm) ==
            LET mlen == OcrLengthMatch(norm)
                mdia == OCR_DIAMETER_RE_search(norm)
                mat == OcrRecoveryMaterial(norm)
            IN  IF ~Contains(norm, <<"L", "F">>) THEN NoRun
                ELSE IF ~(Matched(mlen) /\ (Matched(mdia) \/ mat = DIP))
                     THEN NoRun
                     ELSE [cls |-> "dict",
                           raw |-> candidate_line,
                           length_ft |-> FloatTenths(group1(norm, mlen)),
                           diameter_text |-> IF Matched(mdia)
                                             THEN group0(norm, mdia) ELSE None,
                           material |-> IF mat # None THEN mat ELSE DIP]
    IN  Scanned(OcrRepair(candidate_line))

\* a re-parse that records the material direct scanning reads from the line
OcrRecoveredRun_DirectMaterial(candidate_line, runs) ==
    LET Scanned(norm) ==
            LET mlen == OcrLengthMatch(norm)
                mdia == OCR_DIAMETER_RE_search(norm)
                mat == OcrRecoveryMaterial(norm)
                lf_val == FloatTenths(group1(norm, mlen))
            IN  IF ~Contains(norm, <<"L", "F">>) THEN NoRun
                ELSE IF ~(Matched(mlen) /\ (Matched(mdia) \/ mat = DIP))
                     THEN NoRun
                     ELSE IF \E k \in 1..Len(runs) :
                                AbsDiff(runs[k].length_ft, lf_val)
                                    < RecoveryTolTenths
                          THEN NoRun
                          ELSE [cls |-> "dict",
                                raw |-> candidate_line,
                                length_ft |-> lf_val,
                                diameter_text |-> IF Matched(mdia)
                                                  THEN group0(norm, mdia)
                                                  ELSE None,
                                material |-> OcrDirectMaterial(norm)]
    IN  Scanned(OcrRepair(candidate_line))

\* the re-parse of a recovery candidate line against the runs collected so
\* far: the dict appended, or NoRun
OcrRecoveredRun(candidate_line, runs) ==
    LET Scanned(norm) ==
            LET mlen == OcrLengthMatch(norm)
                mdia == OCR_DIAMETER_RE_search(norm)
                mat == OcrRecoveryMaterial(norm)
                lf_val == FloatTenths(group1(norm, mlen))
            IN  IF ~Contains(norm, <<"L", "F">>) THEN NoRun
                ELSE IF ~(Matched(mlen) /\ (Matched(mdia) \/ mat = DIP))
                     THEN NoRun
                     ELSE IF \E k \in 1..Len(runs) :
                                AbsDiff(runs[k].length_ft, lf_val)
                                    < RecoveryTolTenths
                          THEN NoRun
                          ELSE [cls |-> "dict",
                                raw |-> candidate_line,
                                length_ft |-> lf_val,
                                diameter_text |-> IF Matched(mdia)
                                                  THEN group0(norm, mdia)
                                                  ELSE None,
                                material |-> IF mat # None THEN mat ELSE DIP]
    IN  Scanned(OcrRepair(candidate_line))

\* lines = [" ".join(l.split()) for l in text.splitlines() if l.strip()]
RECURSIVE OcrLines(_)
OcrLines(text_lines) ==
    IF text_lines = <<>> THEN <<>>
    ELSE IF Strip(text_lines[1]) = <<>> THEN OcrLines(Tail(text_lines))
         ELSE <<Collapse(text_lines[1])>> \o OcrLines(Tail(text_lines))

\* direct scanning of all lines (lines 136-202)
RECURSIVE OcrDirectRuns(_)
OcrDirectRuns(lines) ==
    IF lines = <<>> THEN <<>>
    ELSE LET Kept(r) == IF r = NoRun THEN <<>> ELSE <<r>>
         IN  Kept(OcrRunOfLine(lines[1])) \o OcrDirectRuns(Tail(lines))

\* the recovery step runs when direct scanning found fewer than 3 runs and
\* the page has more than 5 lines
RecoveryMinRuns == 3
RecoveryMinLines == 5
\* a condition that one of the two tests is enough for
RecoveryRuns_EitherTest(runs, lines) ==
    Len(runs) < RecoveryMinRuns \/ Len(lines) > RecoveryMinLines
RecoveryRuns(runs, lines) == Len(runs) < RecoveryMinRuns /\ Len(lines) > RecoveryMinLines

\* dip_queries, tokenized by query.lower().split()
dip_queries ==
    << <<<<"2", "6">>, <<"l", "f">>, <<"8">>, <<"d", "i", "p">>>>,
       <<<<"1", "5", "1">>, <<"l", "f">>, <<"8">>, <<"d", "i", "p">>>>,
       <<<<"8">>, <<"d", "i", "p">>, <<"2", "6">>>>,
       <<<<"8">>, <<"d", "i", "p">>, <<"1", "5", "1">>>>,
       <<<<"2", "6">>, <<"l", "f">>, <<"d", "u", "c", "t", "i", "l", "e">>>>,
       <<<<"1", "5", "1">>, <<"l", "f">>, <<"d", "u", "c", "t", "i", "l", "e">>>>,
       <<<<"2", "6">>, <<"l", "f">>, <<"8">>>>,
       <<<<"1", "5", "1">>, <<"l", "f">>, <<"8">>>> >>

Range(f) == {f[k] : k \in DOMAIN f}

\* BM25Okapi(tokenized_lines).get_scores(query_tokens) is the library's; the
\* model keeps what the code relies on: the arg-max is one line of the page,
\* and a line sharing no word with the query scores 0, below the threshold.
\* A pick is [idx, clears]: the top line and whether its score is above 0.5.
Bm25Picks(lines, q) ==
    {[idx |-> k, clears |-> c] : k \in 1..Len(lines), c \in BOOLEAN}
Bm25Possible(lines, q, pick) ==
    pick.clears =>
        Range(split(lower(lines[pick.idx]))) \cap Range(dip_queries[q]) # {}

\* the pick of a BM25 that ranks line `top` first for every query the line
\* shares a word with, and scores no line above the threshold otherwise
RankedPick(lines, q, top) ==
    LET first == [idx |-> top, clears |-> TRUE]
    IN  IF top \in 1..Len(lines) /\ Bm25Possible(lines, q, first) THEN first
        ELSE [idx |-> 1, clears |-> FALSE]

\* one query of the recovery loop (lines 225-280): runs after the query
RecoveryQuery(lines, runs, pick) ==
    IF ~pick.clears THEN runs
    ELSE LET Added(r) == IF r = NoRun THEN runs ELSE Append(runs, r)
         IN  Added(OcrRecoveredRun(lines[pick.idx], runs))

\* ------------------------------------------------------------------------
\* text_based_extract.py: deduplication, merge, aggregation
\* ------------------------------------------------------------------------
\* comparisons of lengths held in tenths of a foot: "< 1" and "< 2"
DedupTolTenths == 1 * 10
MergeTolTenths == 2 * 10

\* Python truthiness of a length (None and 0.0 are falsy) and of a text field
Truthy(length_ft) == length_ft # NoLen /\ length_ft # 0

\* a duplicate test on the length alone
DedupDuplicateOf_IgnoringMaterial(unique, run) ==
    MinPos({k \in 1..Len(unique) :
               /\ unique[k].length_ft # NoLen
               /\ AbsDiff(unique[k].length_ft, run.length_ft) < DedupTolTenths})

\* The inner loop of the cross-DPI deduplication (lines 98-108): the index of
\* the first entry of unique_runs that makes `duplicate` true, 0 when none.
\* An entry within the tolerance whose material is known and differs is passed
\* over and the scan goes on.
DedupDuplicateOf(unique, run) ==
    MinPos({k \in 1..Len(unique) :
               /\ unique[k].length_ft # NoLen
               /\ AbsDiff(unique[k].length_ft, run.length_ft) < DedupTolTenths
               /\ \/ unique[k].material = run.material
                  \/ unique[k].material = None
                  \/ run.material = None})

\* a deduplication that absorbs a duplicate without promoting its material
DedupIteration_NoPromotion(unique, run) ==
    IF run.length_ft = NoLen THEN unique
    ELSE IF DedupDuplicateOf(unique, run) = 0 THEN Append(unique, run)
         ELSE unique

\* One iteration of the loop over ocr_runs (lines 92-110): unique_runs after it
DedupIteration(unique, run) ==
    IF run.length_ft = NoLen THEN unique
    ELSE LET k == DedupDuplicateOf(unique, run)
         IN  IF k = 0 THEN Append(unique, run)
             ELSE IF unique[k].material = None /\ run.material # None
                  THEN [unique EXCEPT ![k].material = run.material]
                  ELSE unique

\* lines 180-187: every vector run becomes a dict with source "vector"
RECURSIVE VectorDicts(_)
VectorDicts(runs) ==
    IF runs = <<>> THEN <<>>
    ELSE <<[cls |-> "dict",
            length_ft |-> runs[1].length_ft,
            diameter_text |-> runs[1].diameter_text,
            material |-> runs[1].material,
            raw |-> runs[1].raw,
            source |-> "vector"]>> \o VectorDicts(Tail(runs))

\* The inner loop of _merge_runs (lines 200-218): the index of the first
\* merged entry the OCR run duplicates, 0 when none
MergeDuplicateOf(merged_runs, ocr_run) ==
    MinPos({k \in 1..Len(merged_runs) :
               /\ merged_runs[k].length_ft # NoLen
               /\ AbsDiff(ocr_run.length_ft, merged_runs[k].length_ft) < MergeTolTenths
               /\ \/ ocr_run.material = merged_runs[k].material
                  \/ ocr_run.material = None
                  \/ merged_runs[k].material = None})

\* a merge in which the OCR length replaces the entry's on a duplicate
MergeIteration_OcrLengthWins(merged_runs, ocr_run) ==
    IF ~Truthy(ocr_run.length_ft) THEN merged_runs
    ELSE LET k == MergeDuplicateOf(merged_runs, ocr_run)
         IN  IF k = 0
             THEN Append(merged_runs,
                         [cls |-> "dict",
                          length_ft |-> ocr_run.length_ft,
                          diameter_text |-> ocr_run.diameter_text,
                          material |-> ocr_run.material,
                          raw |-> ocr_run.raw,
                          source |-> "ocr"])
             ELSE [merged_runs EXCEPT ![k].length_ft = ocr_run.length_ft]

\* One iteration of the loop over ocr_runs in _merge_runs (lines 190-227)
MergeIteration(merged_runs, ocr_run) ==
    IF ~Truthy(ocr_run.length_ft) THEN merged_runs
    ELSE LET k == MergeDuplicateOf(merged_runs, ocr_run)
         IN  IF k = 0
             THEN Append(merged_runs,
                         [cls |-> "dict",
                          length_ft |-> ocr_run.length_ft,
                          diameter_text |-> ocr_run.diameter_text,
                          material |-> ocr_run.material,
                          raw |-> ocr_run.raw,
                          source |-> "ocr"])
             ELSE IF merged_runs[k].material = None /\ ocr_run.material # None
                  THEN [merged_runs EXCEPT ![k].material = ocr_run.material]
                  ELSE merged_runs

\* A diameter is a whole number of inches (the patterns read one or two
\* digits); NoDia is None.
NoDia == 0 - 1
AggregateInchMarks == {"\"", "RDQUO", "DPRIME"}

\* LF[^\d]{0,6}(\d{1,2})\s*(?:"|RDQUO|DPRIME), re.I : the digits are
\* start..gend
NearLfAt(s, i) ==
    IF ~LitAtI(s, i, <<"L", "F">>) THEN NoMatch
    ELSE LET n == RunEndNot(s, i + 2, Digits)
         IN  IF n - (i + 1) <= 6 THEN DiameterAt(s, n + 1, AggregateInchMarks)
             ELSE NoMatch
\* (\d{1,2})
OneOrTwoDigitsAt(s, i) ==
    IF ~(i <= Len(s) /\ IsDigit(s[i])) THEN NoMatch
    ELSE LET d == IF i + 1 <= Len(s) /\ IsDigit(s[i + 1]) THEN i + 1 ELSE i
         IN  [start |-> i, gend |-> d, end |-> d]
\* (\d{1,2})\s*(?:"|RDQUO|DPRIME)
AggregateDiameterAt(s, i) == DiameterAt(s, i, AggregateInchMarks)

SizeCeiling == 60


\* a resolution that tries the run's own diameter_text before the raw text
ResolvedBeforeCeiling_OwnTextFirst(run) ==
    LET raw == run.raw
        text == run.diameter_text
        near_lf == IF raw # None
                   THEN FirstOf([i \in 1..Len(raw) |-> NearLfAt(raw, i)])
                   ELSE NoMatch
        own == IF text # None
               THEN FirstOf([i \in 1..Len(text) |-> OneOrTwoDigitsAt(text, i)])
               ELSE NoMatch
        wide == IF raw # None
                THEN FirstOf([i \in 1..Len(raw) |-> AggregateDiameterAt(raw, i)])
                ELSE NoMatch
    IN  IF Matched(own) THEN IntOf(group1(text, own), 1, 0)
        ELSE IF Matched(near_lf) THEN IntOf(group1(raw, near_lf), 1, 0)
             ELSE IF Matched(wide) THEN IntOf(group1(raw, wide), 1, 0)
                  ELSE NoDia

\* lines 252-277: the diameter a run is grouped under
ResolvedBeforeCeiling(run) ==
    LET raw == run.raw
        text == run.diameter_text
        near_lf == IF raw # None
                   THEN FirstOf([i \in 1..Len(raw) |-> NearLfAt(raw, i)])
                   ELSE NoMatch
        own == IF text # None
               THEN FirstOf([i \in 1..Len(text) |-> OneOrTwoDigitsAt(text, i)])
               ELSE NoMatch
        wide == IF raw # None
                THEN FirstOf([i \in 1..Len(raw) |-> AggregateDiameterAt(raw, i)])
                ELSE NoMatch
    IN  IF Matched(near_lf) THEN IntOf(group1(run.raw, near_lf), 1, 0)
        ELSE IF Matched(own) THEN IntOf(group1(run.diameter_text, own), 1, 0)
             ELSE IF Matched(wide) THEN IntOf(group1(run.raw, wide), 1, 0)
                  ELSE NoDia
\* a resolution that keeps a diameter above the ceiling
ResolvedDiameter_NoCeiling(run) == ResolvedBeforeCeiling(run)

ResolvedDiameter(run) ==
    LET diameter == ResolvedBeforeCeiling(run)
    IN  IF diameter # NoDia /\ diameter > SizeCeiling THEN NoDia ELSE diameter

\* key = (diameter, material)
GroupKey(run) == <<ResolvedDiameter(run), run.material>>

\* lines 247-284: the runs that are grouped (a falsy length is skipped)
Grouped(runs) == SelectSeq(runs, LAMBDA r : Truthy(r.length_ft))

\* the keys of `groups` in insertion order
RECURSIVE GroupKeys(_, _)
GroupKeys(runs, seen) ==
    IF runs = <<>> THEN seen
    ELSE LET key == GroupKey(runs[1])
         IN  GroupKeys(Tail(runs),
                       IF key \in Range(seen) THEN seen ELSE Append(seen, key))

RECURSIVE SumLengths(_)
SumLengths(runs) ==
    IF runs = <<>> THEN 0 ELSE runs[1].length_ft + SumLengths(Tail(runs))

Unknown == <<"U", "n", "k", "n", "o", "w", "n">>

\* an entry that sums every run of its diameter, whatever the material
AggregatedEntry_ByDiameterOnly(key, runs, src) ==
    LET group_runs == SelectSeq(runs, LAMBDA r : GroupKey(r)[1] = key[1])
    IN  [diameter_in |-> key[1],
         material |-> IF key[2] # None THEN key[2] ELSE Unknown,
         length_ft |-> SumLengths(group_runs),
         count |-> Len(group_runs),
         source |-> src]

\* an entry that carries the material of its key as it is, null included
AggregatedEntry_NullMaterial(key, runs, src) ==
    LET group_runs == SelectSeq(runs, LAMBDA r : GroupKey(r) = key)
    IN  [diameter_in |-> key[1],
         material |-> key[2],
         length_ft |-> SumLengths(group_runs),
         count |-> Len(group_runs),
         source |-> src]

\* lines 286-298: one output entry per key of `groups`
AggregatedEntry(key, runs, src) ==
    LET group_runs == SelectSeq(runs, LAMBDA r : GroupKey(r) = key)
    IN  [diameter_in |-> key[1],
         material |-> IF key[2] # None THEN key[2] ELSE Unknown,
         length_ft |-> SumLengths(group_runs),
         count |-> Len(group_runs),
         source |-> src]

\* runs.get fails on a VectorRun: the dataclass has no method get (line 248)
RaisesAttributeError(runs) == \E k \in 1..Len(runs) : runs[k].cls = "VectorRun"

\* _aggregate_pipes on a list of dicts
aggregate_pipes(runs, src) ==
    LET grouped == Grouped(runs)
        keys == GroupKeys(grouped, <<>>)
    IN  [k \in 1..Len(keys) |-> AggregatedEntry(keys[k], grouped, src)]

\* lines 142-159: the run lists as they are returned
RECURSIVE RunViews(_)
RunViews(runs) ==
    IF runs = <<>> THEN <<>>
    ELSE <<[length_ft |-> runs[1].length_ft,
            diameter_text |-> runs[1].diameter_text,
            material |-> runs[1].material,
            raw |-> runs[1].raw]>> \o RunViews(Tail(runs))

\* lines 68-72: [dpi] and the fallbacks 350 and 300 not already in the list
DefaultDpi == 450
FallbackDpi1 == 350
FallbackDpi2 == 300
\* a list without the fallback resolutions
DpiCandidates_PrimaryOnly(dpi) == <<dpi>>

DpiCandidates(dpi) ==
    LET c1 == IF FallbackDpi1 = dpi THEN <<dpi>> ELSE <<dpi, FallbackDpi1>>
    IN  IF FallbackDpi2 \in Range(c1) THEN c1 ELSE Append(c1, FallbackDpi2)

\* ------------------------------------------------------------------------
\* The page-level state machine of extract_sewer_pipes
\* ------------------------------------------------------------------------
VARIABLES
    pc,                  \* where extract_sewer_pipes stands
    min_runs_threshold,  \* the argument min_runs_threshold
    dpi_candidates,      \* the list of DPIs to try
    dpi_i,               \* the next DPI of dpi_candidates
    vector_runs,         \* list of VectorRun
    ocr_runs,            \* list of OCR dicts
    unique_runs,         \* the deduplication's list under construction
    loop_i,              \* the next ocr_runs element of the running loop
    merged_runs,         \* the list handed to _aggregate_pipes
    source,              \* "vector", "ocr", "merged", "none" or "" (not set)
    result,              \* the returned record, the exception, or NoResult
    passes,              \* history: the OCR passes made, [dpi, failed, runs]
    last,                \* history: what the last loop iteration did
    ex_kind,             \* the extractor running alone: "vector", "ocr" or "idle"
    ex_lines,            \* its spans (vector) or lines (OCR)
    ex_i,                \* the next span or line of its scanning loop
    ex_runs,             \* its list `runs`
    ex_pc,               \* "scan", "recover", "done" or "idle"
    ex_q,                \* the next query of the recovery loop
    ex_seen,             \* history: the lines the recovery step re-parsed
    md_text,             \* the argument markdown_text of parse_markdown_to_json
    md_pc,               \* where MarkdownParser.parse stands, or "idle"
    md_result,           \* the record `result` of MarkdownParser.parse
    token,               \* the argument token of _normalize_material
    nm_fn,               \* whose _normalize_material is called: "vector", "ocr" or "idle"
    nm_out,              \* what it returned, and what it returned for that value
    rerun                \* which call this is (1 or 2), the line the stubbed
                         \* BM25 ranks first, and what the first call returned

exVars == <<ex_kind, ex_lines, ex_i, ex_runs, ex_pc, ex_q, ex_seen>>
pageVars == <<pc, min_runs_threshold, dpi_candidates, dpi_i, vector_runs, ocr_runs,
              unique_runs, loop_i, merged_runs, source, result, passes, last>>
mdVars == <<md_text, md_pc, md_result>>
nmVars == <<token, nm_fn, nm_out>>
vars == <<pageVars, exVars, mdVars, nmVars, rerun>>

ExtractorIdle ==
    /\ ex_kind = "idle"
    /\ ex_lines = <<>>
    /\ ex_i = 1
    /\ ex_runs = <<>>
    /\ ex_pc = "idle"
    /\ ex_q = 1
    /\ ex_seen = {}

\* a call of parse_markdown_to_json on a text never reaches the except branch:
\* float() is guarded in _extract_number and nothing else raises on a str
NoParse == [pipes |-> <<>>, structures |-> <<>>, earthwork |-> <<>>, metadata |-> <<>>]

MarkdownIdle ==
    /\ md_text = <<>>
    /\ md_pc = "idle"
    /\ md_result = NoParse

NormalizeIdle ==
    /\ token = <<>>
    /\ nm_fn = "idle"
    /\ nm_out = <<>>

\* a first call: nothing returned yet, and the BM25 ranking left open
\* (top = -1; otherwise top is the line ranked first, 0 when no line scores)
FirstCall == [call |-> 1, top |-> 0 - 1, first |-> <<>>]

NoResult == [kind |-> "none"]
NoEvent == [loop |-> "none"]

\* all sequences over S of length at most n
BoundedSeq(S, n) == UNION {[1..k -> S] : k \in 0..n}

\* --- the pages of the end-to-end specification ---
MaxBlocks == 2
MaxOcrLines == 1

PageVectorVocab ==
    { <<"1", "5", "0", " ", "L", "F", " ", "8", "\"">>,                 \* 150 LF 8"
      <<"1", "1", "7", " ", "L", "F", " ", " ", "8", "\"", " ", "P", "V", "C", " ", "@", " ", "0", ".", "5", "0", "%">>,    \* 117 LF  8" PVC @ 0.50%
      <<"S", "H", "E", "E", "T", " ", "C", "-", "3">> }
PageOcrVocab ==
    { <<"1", "5", "0", ".", "5", " ", "L", "F", " ", "8", "\"", " ", "P", "V", "C">>,           \* 150.5 LF 8" PVC
      <<"1", "5", "0", ".", "2", "L", "f", " ", "8", "\"", " ", "D", "I", "P">>,            \* 150.2Lf 8" DIP
      <<"6", "0", " ", "L", "F", " ", "P", "V", "C">>,
      <<"1", "5", "0", " ", "L", "F", " ", "8", "\"">> }                 \* 150 LF 8"
\* a page of more than five OCR lines on which direct scanning finds one run
NotesPage ==
    << <<"G", "E", "N", "E", "R", "A", "L", " ", "N", "O", "T", "E", "S">>, <<"S", "E", "E", " ", "S", "H", "E", "E", "T", " ", "C", "-", "3">>, <<"2", "6", " ", "L", "F", " ", "D", "I", "T", "C", "H">>, <<"S", "T", "A", " ", "1", "0", "+", "0", "0">>,
       <<"8", "\"", " ", "G", "A", "T", "E", " ", "V", "A", "L", "V", "E">>, <<"E", "X", " ", "G", "R", "A", "D", "E">>, <<"0", " ", "L", "F", " ", "8", "\"", " ", "P", "V", "C">> >>

VectorPages == BoundedSeq(PageVectorVocab, MaxBlocks)
OcrPages == BoundedSeq(PageOcrVocab, MaxOcrLines) \cup {NotesPage}

\* the recovery loop from query q on: every list of runs it can end with,
\* from the lists it can hold before query q
RECURSIVE RecoveryOutcomes(_, _, _)
RecoveryOutcomes(lines, held, q) ==
    IF q > Len(dip_queries) THEN held
    ELSE RecoveryOutcomes(lines,
             {RecoveryQuery(lines, runs, pick) :
                 runs \in held,
                 pick \in {p \in Bm25Picks(lines, q) : Bm25Possible(lines, q, p)}},
             q + 1)

\* ocr_profile_runs_strict_segments on the text the OCR engine returned: the
\* lists it can return (one, unless the recovery step runs)
StrictSegmentsReturns(text_lines) ==
    LET Returned(lines, runs) ==
            IF RecoveryRuns(runs, lines) THEN RecoveryOutcomes(lines, {runs}, 1)
            ELSE {runs}
    IN  Returned(OcrLines(text_lines), OcrDirectRuns(OcrLines(text_lines)))

\* what one OCR pass can hand back: [failed, runs].  Rasterization or the
\* engine raising is caught inside the extractor, which then returns [].
VectorStageReturns == {extract_profile_runs_from_text(p) : p \in VectorPages}
OcrPassReturns ==
    {[failed |-> TRUE, runs |-> <<>>]} \cup
    {[failed |-> FALSE, runs |-> r] :
        r \in UNION {StrictSegmentsReturns(p) : p \in OcrPages}}

DpiArguments == {DefaultDpi, FallbackDpi1}
ThresholdArguments == {1, 2}

Init ==
    /\ pc = "start"
    /\ min_runs_threshold \in ThresholdArguments
    /\ dpi_candidates \in {DpiCandidates(d) : d \in DpiArguments}
    /\ dpi_i = 1
    /\ vector_runs = <<>>
    /\ ocr_runs = <<>>
    /\ unique_runs = <<>>
    /\ loop_i = 1
    /\ merged_runs = <<>>
    /\ source = ""
    /\ result = NoResult
    /\ passes = <<>>
    /\ last = NoEvent
    /\ ExtractorIdle
    /\ MarkdownIdle
    /\ NormalizeIdle
    /\ rerun = FirstCall

\* lines 60-64, 74, 87: vector extraction, then the decision to try OCR
VectorStage ==
    /\ pc = "start"
    /\ \E runs \in VectorStageReturns :
          /\ rerun.call = 2 => runs = rerun.first.vector_runs
          /\ vector_runs' = runs
          /\ pc' = IF Len(runs) < min_runs_threshold THEN "ocr" ELSE "dedup"
    /\ UNCHANGED <<min_runs_threshold, dpi_candidates, dpi_i, ocr_runs, unique_runs,
                   loop_i, merged_runs, source, result, passes, last>>
    /\ UNCHANGED <<exVars, mdVars, nmVars, rerun>>

\* a loop over dpi_candidates that a failing pass ends
OcrPass_StopsAtFailure ==
    /\ pc = "ocr"
    /\ \E ret \in OcrPassReturns :
          /\ ocr_runs' = ocr_runs \o ret.runs
          /\ passes' = Append(passes, [dpi |-> dpi_candidates[dpi_i],
                                       failed |-> ret.failed, runs |-> ret.runs])
          /\ pc' = IF dpi_i = Len(dpi_candidates) \/ ret.failed THEN "dedup"
                   ELSE "ocr"
    /\ dpi_i' = dpi_i + 1
    /\ UNCHANGED <<min_runs_threshold, dpi_candidates, vector_runs, unique_runs,
                   loop_i, merged_runs, source, result, last>>
    /\ UNCHANGED <<exVars, mdVars, nmVars, rerun>>

\* lines 76-85: one pass of the loop over dpi_candidates
OcrPass ==
    /\ pc = "ocr"
    /\ \E ret \in OcrPassReturns :
          /\ rerun.call = 2 => /\ ret.failed = rerun.first.passes[dpi_i].failed
                               /\ ret.runs = rerun.first.passes[dpi_i].runs
          /\ ocr_runs' = ocr_runs \o ret.runs
          /\ passes' = Append(passes, [dpi |-> dpi_candidates[dpi_i],
                                       failed |-> ret.failed, runs |-> ret.runs])
    /\ dpi_i' = dpi_i + 1
    /\ pc' = IF dpi_i = Len(dpi_candidates) THEN "dedup" ELSE "ocr"
    /\ UNCHANGED <<min_runs_threshold, dpi_candidates, vector_runs, unique_runs,
                   loop_i, merged_runs, source, result, last>>
    /\ UNCHANGED <<exVars, mdVars, nmVars, rerun>>

\* a deduplication that remembers across calls what it has seen
DedupStep_RemembersEarlierCall ==
    /\ pc = "dedup"
    /\ loop_i <= Len(ocr_runs)
    /\ unique_runs' = IF rerun.call = 2 THEN unique_runs
                      ELSE DedupIteration(unique_runs, ocr_runs[loop_i])
    /\ last' = NoEvent
    /\ loop_i' = loop_i + 1
    /\ UNCHANGED <<pc, min_runs_threshold, dpi_candidates, dpi_i, vector_runs,
                   ocr_runs, merged_runs, source, result, passes>>
    /\ UNCHANGED <<exVars, mdVars, nmVars, rerun>>

\* lines 90-110: one iteration of the deduplication loop
DedupStep ==
    /\ pc = "dedup"
    /\ loop_i <= Len(ocr_runs)
    /\ unique_runs' = DedupIteration(unique_runs, ocr_runs[loop_i])
    /\ last' = [loop |-> "dedup", run |-> ocr_runs[loop_i],
                into |-> IF ocr_runs[loop_i].length_ft = NoLen THEN 0
                         ELSE DedupDuplicateOf(unique_runs, ocr_runs[loop_i])]
    /\ loop_i' = loop_i + 1
    /\ UNCHANGED <<pc, min_runs_threshold, dpi_candidates, dpi_i, vector_runs,
                   ocr_runs, merged_runs, source, result, passes>>
    /\ UNCHANGED <<exVars, mdVars, nmVars, rerun>>

\* lines 111, 115-132: ocr_runs = unique_runs (when any were collected), then
\* the choice of the path; "none" returns at once
ChoosePath ==
    /\ pc = "dedup"
    /\ loop_i > Len(ocr_runs)
    /\ ocr_runs' = unique_runs
    /\ loop_i' = 1
    /\ IF vector_runs # <<>> /\ unique_runs # <<>>
       THEN /\ merged_runs' = VectorDicts(vector_runs)
            /\ source' = "merged"
            /\ pc' = "merge"
            /\ result' = result
       ELSE IF vector_runs # <<>>
            THEN /\ merged_runs' = vector_runs
                 /\ source' = "vector"
                 /\ pc' = "aggregate"
                 /\ result' = result
            ELSE IF unique_runs # <<>>
                 THEN /\ merged_runs' = unique_runs
                      /\ source' = "ocr"
                      /\ pc' = "aggregate"
                      /\ result' = result
                 ELSE /\ merged_runs' = merged_runs
                      /\ source' = "none"
                      /\ pc' = "returned"
                      /\ result' = [kind |-> "return", pipes |-> <<>>,
                                    vector_runs |-> <<>>, ocr_runs |-> <<>>,
                                    source |-> "none"]
    /\ last' = NoEvent
    /\ UNCHANGED <<min_runs_threshold, dpi_candidates, dpi_i, vector_runs,
                   unique_runs, passes>>
    /\ UNCHANGED <<exVars, mdVars, nmVars, rerun>>

\* lines 190-227: one iteration of the loop over ocr_runs in _merge_runs
MergeStep ==
    /\ pc = "merge"
    /\ loop_i <= Len(ocr_runs)
    /\ merged_runs' = MergeIteration(merged_runs, ocr_runs[loop_i])
    /\ last' = [loop |-> "merge", run |-> ocr_runs[loop_i],
                into |-> IF ~Truthy(ocr_runs[loop_i].length_ft) THEN 0
                         ELSE MergeDuplicateOf(merged_runs, ocr_runs[loop_i])]
    /\ loop_i' = loop_i + 1
    /\ UNCHANGED <<pc, min_runs_threshold, dpi_candidates, dpi_i, vector_runs,
                   ocr_runs, unique_runs, source, result, passes>>
    /\ UNCHANGED <<exVars, mdVars, nmVars, rerun>>

\* line 230: _merge_runs returns
MergeReturn ==
    /\ pc = "merge"
    /\ loop_i > Len(ocr_runs)
    /\ pc' = "aggregate"
    /\ last' = NoEvent
    /\ UNCHANGED <<min_runs_threshold, dpi_candidates, dpi_i, vector_runs, ocr_runs,
                   unique_runs, loop_i, merged_runs, source, result, passes>>
    /\ UNCHANGED <<exVars, mdVars, nmVars, rerun>>

\* lines 136-161: _aggregate_pipes and the returned record; the call raises
\* when the list holds VectorRun objects
AggregateAndReturn ==
    /\ pc = "aggregate"
    /\ IF RaisesAttributeError(merged_runs)
       THEN /\ pc' = "raised"
            /\ result' = [kind |-> "AttributeError"]
       ELSE /\ pc' = "returned"
            /\ result' = [kind |-> "return",
                          pipes |-> aggregate_pipes(merged_runs, source),
                          vector_runs |-> RunViews(vector_runs),
                          ocr_runs |-> RunViews(ocr_runs),
                          source |-> source]
    /\ UNCHANGED <<min_runs_threshold, dpi_candidates, dpi_i, vector_runs, ocr_runs,
                   unique_runs, loop_i, merged_runs, source, passes, last>>
    /\ UNCHANGED <<exVars, mdVars, nmVars, rerun>>

Next ==
    \/ VectorStage
    \/ OcrPass
    \/ DedupStep
    \/ ChoosePath
    \/ MergeStep
    \/ MergeReturn
    \/ AggregateAndReturn

Spec == Init /\ [][Next]_vars

\* ------------------------------------------------------------------------
\* The reconciler on arbitrary run lists: deduplication, merge, aggregation
\* ------------------------------------------------------------------------
MaxVectorRuns == 2
MaxOcrRuns == 3

ReconVectorVocab ==
    { <<"1", "5", "0", " ", "L", "F", " ", "8", "\"">>,                 \* 150 LF 8"
      <<"1", "2", "\"", " ", "P", "L", "U", "G", " ", "1", "1", "7", " ", "L", "F", " ", "8", "\"", " ", "P", "V", "C">>,   \* 12" PLUG 117 LF 8" PVC
      <<"8", "8", "\"", " ", "9", "0", " ", "L", "F", " ", "P", "V", "C">> }            \* 88" 90 LF PVC
ReconOcrVocab ==
    { <<"1", "5", "0", " ", "L", "F", " ", "8", "\"">>,                 \* 150 LF 8"
      <<"1", "5", "0", ".", "5", " ", "L", "F", " ", "8", "\"", " ", "P", "V", "C">>,           \* 150.5 LF 8" PVC
      <<"1", "5", "0", ".", "2", "L", "f", " ", "D", "I", "P">>,                \* 150.2Lf DIP
      <<"8", "RDQUO", " ", "1", "0", "0", " ", "L", "F", " ", "D", "I", "P">>,              \* 8(U+201D) 100 LF DIP
      <<"0", " ", "L", "F", " ", "8", "\"", " ", "P", "V", "C">>,              \* 0 LF 8" PVC
      <<"1", "5", "1", ".", "5", " ", "L", "F", " ", "8", "\"", " ", "P", "V", "C">> }           \* 151.5 LF 8" PVC
ReconVectorPool == {VectorRunOfSpan(t) : t \in ReconVectorVocab} \ {NoRun}
ReconOcrPool == {OcrRunOfLine(t) : t \in ReconOcrVocab} \ {NoRun}

InitRecon ==
    /\ pc = "dedup"
    /\ min_runs_threshold = 2
    /\ dpi_candidates = DpiCandidates(DefaultDpi)
    /\ dpi_i = Len(dpi_candidates) + 1
    /\ vector_runs \in BoundedSeq(ReconVectorPool, MaxVectorRuns)
    /\ ocr_runs \in BoundedSeq(ReconOcrPool, MaxOcrRuns)
    /\ unique_runs = <<>>
    /\ loop_i = 1
    /\ merged_runs = <<>>
    /\ source = ""
    /\ result = NoResult
    /\ passes = <<>>
    /\ last = NoEvent
    /\ ExtractorIdle
    /\ MarkdownIdle
    /\ NormalizeIdle
    /\ rerun = FirstCall

NextRecon ==
    \/ DedupStep
    \/ ChoosePath
    \/ MergeStep
    \/ MergeReturn
    \/ AggregateAndReturn

SpecRecon == InitRecon /\ [][NextRecon]_vars

\* ------------------------------------------------------------------------
\* The extractors alone, span by span and line by line
\* ------------------------------------------------------------------------
MaxLines == 2
\* the lines a stubbed BM25 may rank first: none, the first or the second
MaxRankedLine == 2

ExtractVocab ==
    { <<"1", "1", "7", " ", "L", "F", " ", "8", "\"", " ", "P", "V", "C", " ", "@", " ", "0", ".", "5", "0", "%">>,     \* 117 LF 8" PVC @ 0.50%
      <<"2", "1", "5", "L", "f", " ", "8", "\"", " ", "D", "I", "P">>,              \* 215Lf 8" DIP
      <<"2", "l", "5", " ", "L", "F", " ", "8", "\"">>,                 \* 2l5 LF 8"
      <<"l", "l", " ", "L", "F", " ", "8", "\"", " ", "P", "V", "C">>,              \* ll LF 8" PVC
      <<"2", "1", "5", "I", "F", " ", "8", "\"", " ", "D", "I", "P">>,              \* 215IF 8" DIP
      <<"8", "\"", " ", "P", "V", "C", " ", "@", " ", "0", ".", "5", "0", "%">>,            \* 8" PVC @ 0.50%
      <<"4", "0", " ", "L", "F">>,                      \* 40 LF
      <<"2", "6", " ", "L", "F", " ", "D", "I", "T", "C", "H">>,                \* 26 LF DITCH
      <<"1", "5", "1", " ", "L", "F", " ", "D", "U", "C", "T", "I", "L", "E", " ", " ", "I", "R", "O", "N">>,       \* 151 LF DUCTILE  IRON
      <<"4", "0", " ", "L", "F", " ", "I", "R", "O", "N", " ", "F", "E", "N", "C", "E">>,           \* 40 LF IRON FENCE
      <<"6", "0", " ", "L", "F", " ", "R", "C", "P">>,                  \* 60 LF RCP
      <<"1", "5", "0", ".", "5", "0", " ", "L", "F", " ", "8", "\"", " ", "P", "V", "C">>,     \* 150.50 LF 8" PVC
      <<"1", "O", "5", "l", "f", "_", "8", "\"", " ", "D", "I", "P">>,             \* 1O5lf_8" DIP
      <<"0", " ", "L", "F", " ", "8", "RDQUO", " ", "P", "V", "C">> }               \* 0 LF 8(U+201D) PVC
\* five lines no recognizer takes: with them a page has more than five lines
FillerLines ==
    << <<"G", "E", "N", "E", "R", "A", "L", " ", "N", "O", "T", "E", "S">>, <<"S", "E", "E", " ", "S", "H", "E", "E", "T", " ", "C", "-", "3">>, <<"S", "T", "A", " ", "1", "0", "+", "0", "0">>, <<"8", " ", "D", "I", "P">>,
       <<"E", "X", " ", "G", "R", "A", "D", "E">> >>
\* three lines direct scanning takes: with them a page has three runs or more
BusyLines ==
    << <<"1", "1", "7", " ", "L", "F", " ", "8", "\"", " ", "P", "V", "C", " ", "@", " ", "0", ".", "5", "0", "%">>, <<"2", "1", "5", "L", "f", " ", "8", "\"", " ", "D", "I", "P">>,
       <<"1", "5", "1", " ", "L", "F", " ", "D", "U", "C", "T", "I", "L", "E", " ", " ", "I", "R", "O", "N">> >>
BlankLine == <<" ", " ">>
\* pages of up to MaxLines lines, the same followed by the five filler lines,
\* a line followed by three runs and three fillers (three runs or more on
\* more than five lines), and a line followed by a blank line and four
\* fillers (six lines of text, five of them non-empty)
ExtractPages ==
    LET short == BoundedSeq(ExtractVocab, MaxLines)
    IN  short \cup {p \o FillerLines : p \in short}
              \cup {<<l>> \o BusyLines \o SubSeq(FillerLines, 1, 3) : l \in ExtractVocab}
              \cup {<<l, BlankLine>> \o SubSeq(FillerLines, 1, 4) : l \in ExtractVocab}

InitExtract ==
    /\ pc = "idle"
    /\ min_runs_threshold = 2
    /\ dpi_candidates = DpiCandidates(DefaultDpi)
    /\ dpi_i = 1
    /\ vector_runs = <<>>
    /\ ocr_runs = <<>>
    /\ unique_runs = <<>>
    /\ loop_i = 1
    /\ merged_runs = <<>>
    /\ source = ""
    /\ result = NoResult
    /\ passes = <<>>
    /\ last = NoEvent
    /\ ex_kind \in {"vector", "ocr"}
    /\ \E page \in ExtractPages :
          ex_lines = IF ex_kind = "vector" THEN page_text_spans(page)
                     ELSE OcrLines(page)
    /\ ex_i = 1
    /\ ex_runs = <<>>
    /\ ex_pc = "scan"
    /\ ex_q = 1
    /\ ex_seen = {}
    /\ MarkdownIdle
    /\ NormalizeIdle
    /\ rerun = FirstCall

\* vector_extract.py lines 102-158: one span of the loop
VectorScanSpan ==
    /\ ex_kind = "vector" /\ ex_pc = "scan"
    /\ ex_i <= Len(ex_lines)
    /\ LET r == VectorRunOfSpan(ex_lines[ex_i])
       IN  ex_runs' = IF r = NoRun THEN ex_runs ELSE Append(ex_runs, r)
    /\ ex_i' = ex_i + 1
    /\ UNCHANGED <<ex_kind, ex_lines, ex_pc, ex_q, ex_seen>>
    /\ UNCHANGED <<pageVars, mdVars, nmVars, rerun>>

\* vector_extract.py line 163
VectorReturn ==
    /\ ex_kind = "vector" /\ ex_pc = "scan"
    /\ ex_i > Len(ex_lines)
    /\ ex_pc' = "done"
    /\ UNCHANGED <<ex_kind, ex_lines, ex_i, ex_runs, ex_q, ex_seen>>
    /\ UNCHANGED <<pageVars, mdVars, nmVars, rerun>>

\* ocr_extract.py lines 138-202: one line of the direct-scanning loop
OcrScanLine ==
    /\ ex_kind = "ocr" /\ ex_pc = "scan"
    /\ ex_i <= Len(ex_lines)
    /\ LET r == OcrRunOfLine(ex_lines[ex_i])
       IN  ex_runs' = IF r = NoRun THEN ex_runs ELSE Append(ex_runs, r)
    /\ ex_i' = ex_i + 1
    /\ UNCHANGED <<ex_kind, ex_lines, ex_pc, ex_q, ex_seen>>
    /\ UNCHANGED <<pageVars, mdVars, nmVars, rerun>>

\* ocr_extract.py line 207: after the loop, the recovery step or the return
OcrAfterScan ==
    /\ ex_kind = "ocr" /\ ex_pc = "scan"
    /\ ex_i > Len(ex_lines)
    /\ ex_pc' = IF RecoveryRuns(ex_runs, ex_lines) THEN "recover" ELSE "done"
    /\ UNCHANGED <<ex_kind, ex_lines, ex_i, ex_runs, ex_q, ex_seen>>
    /\ UNCHANGED <<pageVars, mdVars, nmVars, rerun>>

\* ocr_extract.py lines 225-280: one query of the recovery loop
OcrRecoveryQuery ==
    /\ ex_kind = "ocr" /\ ex_pc = "recover"
    /\ ex_q <= Len(dip_queries)
    /\ \E pick \in Bm25Picks(ex_lines, ex_q) :
          /\ Bm25Possible(ex_lines, ex_q, pick)
          /\ rerun.top >= 0 => pick = RankedPick(ex_lines, ex_q, rerun.top)
          /\ ex_runs' = RecoveryQuery(ex_lines, ex_runs, pick)
          /\ ex_seen' = IF pick.clears THEN ex_seen \cup {ex_lines[pick.idx]}
                        ELSE ex_seen
    /\ ex_q' = ex_q + 1
    /\ UNCHANGED <<ex_kind, ex_lines, ex_i, ex_pc>>
    /\ UNCHANGED <<pageVars, mdVars, nmVars, rerun>>

\* ocr_extract.py line 284
OcrReturn ==
    /\ ex_kind = "ocr" /\ ex_pc = "recover"
    /\ ex_q > Len(dip_queries)
    /\ ex_pc' = "done"
    /\ UNCHANGED <<ex_kind, ex_lines, ex_i, ex_runs, ex_q, ex_seen>>
    /\ UNCHANGED <<pageVars, mdVars, nmVars, rerun>>

\* a handler that hands back what the pass had collected when it raised
OcrRaise_KeepsCollectedRuns ==
    /\ ex_kind = "ocr" /\ ex_pc \in {"scan", "recover"}
    /\ rerun.call = 1
    /\ ex_pc' = "failed"
    /\ UNCHANGED <<ex_kind, ex_lines, ex_i, ex_runs, ex_q, ex_seen>>
    /\ UNCHANGED <<pageVars, mdVars, nmVars, rerun>>

\* ocr_extract.py lines 107, 285-287: something raises inside the try block
\* (the rasterizer or the engine before the first line, a step of the scan,
\* the BM25 index or a query of the recovery step) and the handler returns [].
\* The two inner handlers (lines 187-190 and 266-280) guard float() on text a
\* digit pattern has matched, which does not raise.  A second call on the
\* same page is a call in which nothing raises.
OcrRaise ==
    /\ ex_kind = "ocr" /\ ex_pc \in {"scan", "recover"}
    /\ rerun.call = 1
    /\ ex_runs' = <<>>
    /\ ex_pc' = "failed"
    /\ UNCHANGED <<ex_kind, ex_lines, ex_i, ex_q, ex_seen>>
    /\ UNCHANGED <<pageVars, mdVars, nmVars, rerun>>

NextExtract ==
    \/ VectorScanSpan
    \/ VectorReturn
    \/ OcrScanLine
    \/ OcrAfterScan
    \/ OcrRecoveryQuery
    \/ OcrReturn
    \/ OcrRaise

SpecExtract == InitExtract /\ [][NextExtract]_vars

\* ------------------------------------------------------------------------
\* markdown_parser.py: the regex helpers
\* ------------------------------------------------------------------------
\* Text is a sequence of characters as before, "\n" among them.  The empty
\* string and None are both <<>>: the parser tests sections with `if not`,
\* and the documents checked hold no field whose value is only spaces.
WordChars == Digits \cup UpperLetters \cup LowerLetters \cup {"_"}
NumChars == Digits \cup {"."}
MaxPos(S) == CHOOSE x \in S : \A y \in S : y <= x

\* A field pattern  lead \s* word (\s+ word)* [.*?] : \s* (class+) tail  under
\* re.I: lead is the literal it starts with, words the key, gap whether .*?
\* stands before the colon, chars and neg the character class of the group,
\* units the alternatives of the tail \s*(?:u1|u2), eol the tail (?:\n|$).
Pat(words, chars, units) ==
    [lead |-> <<"-">>, words |-> words, gap |-> FALSE, chars |-> chars,
     neg |-> FALSE, units |-> units, eol |-> FALSE]
\* the class [^\n]
RestOfLine(words) == [Pat(words, {"\n"}, {}) EXCEPT !.neg = TRUE]

\* the tail of a pattern matches at position j
TailAt(text, j, pat) ==
    /\ pat.eol => (j > Len(text) \/ text[j] = "\n")
    /\ pat.units # {} =>
          \E u \in pat.units : LitAtI(text, RunEnd(text, j, Spaces) + 1, u)

\* \s*(class+)tail from position v on: \s* and the class are greedy and give
\* back characters until the tail matches; the result is the span of the group
ValueAt(text, v, pat) ==
    LET ClassEnd(p) == IF pat.neg THEN RunEndNot(text, p, pat.chars)
                       ELSE RunEnd(text, p, pat.chars)
        Ends(p) == {q \in p..ClassEnd(p) : TailAt(text, q + 1, pat)}
        starts == {p \in v..(RunEnd(text, v, Spaces) + 1) : Ends(p) # {}}
    IN  IF starts = {} THEN NoMatch
        ELSE LET p == MaxPos(starts)
                 q == MaxPos(Ends(p))
             IN  [start |-> p, gend |-> q, end |-> q]

\* the position after the words of a key matched from j on, 0 when they do
\* not match
RECURSIVE WordsEnd(_, _, _)
WordsEnd(text, j, ws) ==
    IF ws = <<>> THEN j
    ELSE IF ~LitAtI(text, j, ws[1]) THEN 0
         ELSE LET e == j + Len(ws[1])
                  n == RunEnd(text, e, Spaces) + 1
              IN  IF Len(ws) = 1 THEN e
                  ELSE IF n = e THEN 0 ELSE WordsEnd(text, n, Tail(ws))

\* a field pattern matched at position i
FieldAt(text, i, pat) ==
    IF text[i] # pat.lead[1] \/ ~LitAtI(text, i, pat.lead) THEN NoMatch
    ELSE LET a == i + Len(pat.lead)
             k == IF pat.words = <<>> THEN a
                  ELSE WordsEnd(text, RunEnd(text, a, Spaces) + 1, pat.words)
             colons == IF k = 0 \/ k > Len(text) THEN {}
                       ELSE IF pat.gap
                            THEN {c \in k..RunEndNot(text, k, {"\n"}) : text[c] = ":"}
                            ELSE IF text[k] = ":" THEN {k} ELSE {}
             values == [c \in colons |-> ValueAt(text, c + 1, pat)]
             hits == {c \in colons : Matched(values[c])}
         IN  IF hits = {} THEN NoMatch ELSE values[MinPos(hits)]

\* re.search(pattern, text, re.IGNORECASE)
FieldSearch(text, pat) == FirstOf([i \in 1..Len(text) |-> FieldAt(text, i, pat)])

\* float(): a number is <<m, e>> for m / 10^e with no trailing zero in the
\* fraction; NotAFloat when float() raises ValueError
NotAFloat == <<0 - 1, 0>>
RECURSIVE Reduced(_, _)
Reduced(m, e) == IF e > 0 /\ m % 10 = 0 THEN Reduced(m \div 10, e - 1) ELSE <<m, e>>
FloatOf(s) ==
    LET dots == {i \in 1..Len(s) : s[i] = "."}
        digits == Without(s, {"."})
    IN  IF digits = <<>> \/ Cardinality(dots) > 1 \/ \E i \in 1..Len(s) : s[i] \notin NumChars
        THEN NotAFloat
        ELSE Reduced(IntOf(digits, 1, 0),
                     IF dots = {} THEN 0 ELSE Len(s) - MaxPos(dots))
Zero == <<0, 0>>
One == <<1, 0>>

\* _extract_field (lines 260-270) and _extract_number (lines 272-287) on a
\* match m
extract_field(text, m, default) ==
    IF Matched(m) THEN Strip(group1(text, m)) ELSE default
extract_number(text, m, default) ==
    LET value == FloatOf(Without(group1(text, m), {","}))
    IN  IF Matched(m) /\ value # NotAFloat THEN value ELSE default

\* A field of a record: its pattern, whether _extract_number or
\* _extract_field reads it, and its default
Num(pat, default) == [pat |-> pat, numeric |-> TRUE, default |-> default]
Txt(pat, default) == [pat |-> pat, numeric |-> FALSE, default |-> default]
\* the record of a table of fields read from a text
parse_fields(text, fields) ==
    [f \in DOMAIN fields |->
        LET m == FieldSearch(text, fields[f].pat)
        IN  IF fields[f].numeric THEN extract_number(text, m, fields[f].default)
            ELSE extract_field(text, m, fields[f].default)]

\* _extract_section (lines 241-258): ##\s+NAME\s*\n(.*?)(?=\n##|\Z) under
\* re.DOTALL | re.I, matched at position i; the span of the group
SectionAt(markdown, i, name) ==
    IF ~(markdown[i] = "#" /\ LitAt(markdown, i, <<"#", "#">>)) THEN NoMatch
    ELSE LET a == RunEnd(markdown, i + 2, Spaces) + 1
             b == a + Len(name)
             breaks == {k \in b..RunEnd(markdown, b, Spaces) : markdown[k] = "\n"}
         IN  IF a = i + 2 \/ ~LitAtI(markdown, a, name) \/ breaks = {} THEN NoMatch
             ELSE LET k == MaxPos(breaks)
                      e == MinPos({j \in k..Len(markdown) :
                                      \/ j = Len(markdown)
                                      \/ LitAt(markdown, j + 1, <<"\n", "#", "#">>)})
                  IN  [start |-> k + 1, gend |-> e, end |-> e]
extract_section(markdown, name) ==
    LET m == FirstOf([i \in 1..Len(markdown) |-> SectionAt(markdown, i, name)])
    IN  IF Matched(m) THEN Strip(group1(markdown, m)) ELSE None

\* re.split(r'###\s+', section)
RECURSIVE SplitBlocks(_)
SplitBlocks(section) ==
    LET seps == {i \in 1..Len(section) :
                    /\ LitAt(section, i, <<"#", "#", "#">>)
                    /\ i + 3 <= Len(section) /\ IsSpace(section[i + 3])}
    IN  IF seps = {} THEN <<section>>
        ELSE LET i == MinPos(seps)
             IN  <<Slice(section, 1, i - 1)>>
                 \o SplitBlocks(Slice(section, RunEnd(section, i + 3, Spaces) + 1,
                                      Len(section)))

\* ------------------------------------------------------------------------
\* markdown_parser.py: the block parsers
\* ------------------------------------------------------------------------

Feet == {<<"f", "t">>}
LfOrFeet == {<<"L", "F">>, <<"f", "t">>}
\* the tail \s*(?:cubic yards|CY|cy)
VolumeUnits == {<<"c", "u", "b", "i", "c", " ", "y", "a", "r", "d", "s">>, <<"C", "Y">>}
\* the pattern of a Type line, ([\w\s]+)(?:\n|$) or with extra characters
TypeLine(extra) ==
    [Pat(<<<<"T", "y", "p", "e">>>>, WordChars \cup Spaces \cup extra, {}) EXCEPT !.eol = TRUE]

\* the group of ^(.*?)\s+Pipe under re.I
PipeHeader(block) ==
    LET ends == {e \in 0..RunEndNot(block, 1, {"\n"}) :
                    /\ e + 1 <= Len(block) /\ IsSpace(block[e + 1])
                    /\ LitAtI(block, RunEnd(block, e + 1, Spaces) + 1, <<"P", "i", "p", "e">>)}
    IN  IF ends = {} THEN [matched |-> FALSE, text |-> None]
        ELSE [matched |-> TRUE, text |-> Slice(block, 1, MinPos(ends))]

\* _parse_pipe_block (lines 83-110)
PipeFields ==
    [diameter_in |-> Num(Pat(<<<<"D", "i", "a", "m", "e", "t", "e", "r">>>>, NumChars, {<<"i", "n", "c", "h">>}), Zero),
     material |-> Txt(Pat(<<<<"M", "a", "t", "e", "r", "i", "a", "l">>>>, WordChars, {}), Unknown),
     type |-> Txt(TypeLine({}), <<"P", "i", "p", "e">>),
     length_ft |-> Num(Pat(<<<<"L", "e", "n", "g", "t", "h">>>>, NumChars, LfOrFeet), Zero),
     depth_ft |-> Num(Pat(<<<<"D", "e", "p", "t", "h">>>>, NumChars, Feet), Zero),
     from |-> Txt(RestOfLine(<<<<"F", "r", "o", "m">>>>), <<>>),
     to |-> Txt(RestOfLine(<<<<"T", "o">>>>), <<>>),
     invert_in |-> Num(Pat(<<<<"I", "n", "v", "e", "r", "t">>, <<"I", "n">>>>, NumChars, Feet), None),
     invert_out |-> Num(Pat(<<<<"I", "n", "v", "e", "r", "t">>, <<"O", "u", "t">>>>, NumChars, Feet), None),
     count |-> Num(Pat(<<<<"C", "o", "u", "n", "t">>>>, NumChars, {}), One)]
parse_pipe_block(block) ==
    LET header == PipeHeader(block)
    IN  (IF header.matched THEN [discipline |-> lower(Strip(header.text))]
         ELSE <<>>) @@ parse_fields(block, PipeFields)

\* the groups of ^(.*?):\s*([^\n]+), the header of a structure block
StructureHeader(block) ==
    LET rest == [e \in 0..RunEndNot(block, 1, {"\n"}) |->
                    ValueAt(block, e + 2, RestOfLine(<<>>))]
        ends == {e \in DOMAIN rest :
                    e + 1 <= Len(block) /\ block[e + 1] = ":" /\ Matched(rest[e])}
    IN  IF ends = {} THEN [matched |-> FALSE, type |-> None, id |-> None]
        ELSE LET e == MinPos(ends)
             IN  [matched |-> TRUE,
                  type |-> Strip(Slice(block, 1, e)),
                  id |-> Strip(group1(block, rest[e]))]

\* _parse_structure_block (lines 145-167)
StructureFields(header) ==
    [id |-> Txt(RestOfLine(<<<<"I", "D">>>>), IF header.matched THEN header.id ELSE <<>>),
     type |-> Txt(TypeLine({}), IF header.matched THEN header.type ELSE Unknown),
     discipline |-> Txt(Pat(<<<<"D", "i", "s", "c", "i", "p", "l", "i", "n", "e">>>>, WordChars, {}), Unknown),
     rim_elevation |-> Num(Pat(<<<<"R", "i", "m">>, <<"E", "l", "e", "v", "a", "t", "i", "o", "n">>>>, NumChars, Feet), None),
     invert_in |-> Num(Pat(<<<<"I", "n", "v", "e", "r", "t">>, <<"I", "n">>>>, NumChars, Feet), None),
     invert_out |-> Num(Pat(<<<<"I", "n", "v", "e", "r", "t">>, <<"O", "u", "t">>>>, NumChars, Feet), None),
     invert_elevation |-> Num(Pat(<<<<"I", "n", "v", "e", "r", "t">>, <<"E", "l", "e", "v", "a", "t", "i", "o", "n">>>>, NumChars, Feet), None),
     depth_ft |-> Num(Pat(<<<<"D", "e", "p", "t", "h">>>>, NumChars, Feet), None)]
parse_structure_block(block) ==
    parse_fields(block, StructureFields(StructureHeader(block)))

\* _parse_earthwork_block (lines 201-216)
EarthworkFields ==
    [type |-> Txt(TypeLine({"/"}), Unknown),
     volume_cy |-> Num(Pat(<<<<"V", "o", "l", "u", "m", "e">>>>, Digits \cup {","}, VolumeUnits), None),
     depth_ft |-> Num(Pat(<<<<"D", "e", "p", "t", "h">>>>, NumChars, Feet), None),
     length_ft |-> Num(Pat(<<<<"L", "e", "n", "g", "t", "h">>>>, NumChars, LfOrFeet), None),
     purpose |-> Txt(RestOfLine(<<<<"P", "u", "r", "p", "o", "s", "e">>>>), None),
     cut_cy |-> Num(Pat(<<<<"C", "u", "t">>, <<"V", "o", "l", "u", "m", "e">>>>, Digits \cup {","}, VolumeUnits), None),
     fill_cy |-> Num(Pat(<<<<"F", "i", "l", "l">>, <<"V", "o", "l", "u", "m", "e">>>>, Digits \cup {","}, VolumeUnits), None)]
parse_earthwork_block(block) == parse_fields(block, EarthworkFields)

\* the blocks a section is split into: re.split(...)[1:], nothing when the
\* section is missing or empty
SectionBlocks(markdown, name) ==
    LET section == extract_section(markdown, name)
    IN  IF section = <<>> THEN <<>> ELSE Tail(SplitBlocks(section))

\* _extract_pipes (lines 49-81), _extract_structures (112-143) and
\* _extract_earthwork (169-199): one record per block of the section
extract_pipes(markdown) ==
    LET blocks == SectionBlocks(markdown, <<"P", "i", "p", "e", "s">>)
    IN  [k \in 1..Len(blocks) |-> parse_pipe_block(blocks[k])]
extract_structures(markdown) ==
    LET blocks == SectionBlocks(markdown, <<"S", "t", "r", "u", "c", "t", "u", "r", "e", "s">>)
    IN  [k \in 1..Len(blocks) |-> parse_structure_block(blocks[k])]
extract_earthwork(markdown) ==
    LET blocks == SectionBlocks(markdown, <<"E", "a", "r", "t", "h", "w", "o", "r", "k">>)
    IN  [k \in 1..Len(blocks) |-> parse_earthwork_block(blocks[k])]

\* the group of #\s+Page\s+(\d+) matched at position i (no flags)
PageNumberAt(markdown, i) ==
    LET a == RunEnd(markdown, i + 1, Spaces) + 1
        b == RunEnd(markdown, a + 4, Spaces) + 1
        e == RunEnd(markdown, b, Digits)
    IN  IF /\ markdown[i] = "#"
           /\ a > i + 1 /\ LitAt(markdown, a, <<"P", "a", "g", "e">>)
           /\ b > a + 4 /\ e >= b
        THEN Slice(markdown, b, e) ELSE None

\* _extract_metadata (lines 218-235)
MetadataFields ==
    [total_pipes |-> Num(Pat(<<<<"T", "o", "t", "a", "l">>, <<"P", "i", "p", "e", "s">>>>, Digits, {}), Zero),
     total_structures |-> Num(Pat(<<<<"T", "o", "t", "a", "l">>, <<"S", "t", "r", "u", "c", "t", "u", "r", "e", "s">>>>, Digits, {}), Zero),
     total_earthwork |->
        Num([Pat(<<<<"T", "o", "t", "a", "l">>, <<"E", "a", "r", "t", "h", "w", "o", "r", "k">>>>, Digits, {}) EXCEPT !.gap = TRUE], Zero),
     firm |-> Txt([RestOfLine(<<>>) EXCEPT !.lead = <<"*", "*", "F", "i", "r", "m", "*", "*">>], None)]
extract_metadata(markdown) ==
    [pages_processed |->
        Cardinality({PageNumberAt(markdown, i) : i \in 1..Len(markdown)} \ {None})]
    @@ parse_fields(markdown, MetadataFields)

\* ------------------------------------------------------------------------
\* MarkdownParser.parse, list by list
\* ------------------------------------------------------------------------
\* --- the documents ---
MaxPipeBlocks == 2
MaxStructureBlocks == 2
MaxEarthworkBlocks == 2

PipeBlockVocab ==
    { << <<"#", "#", "#", " ", "S", "a", "n", "i", "t", "a", "r", "y", " ", "P", "i", "p", "e", " ", "1">>, <<"-", " ", "D", "i", "a", "m", "e", "t", "e", "r", ":", " ", "8", " ", "i", "n", "c", "h", "e", "s">>, <<"-", " ", "M", "a", "t", "e", "r", "i", "a", "l", ":", " ", "P", "V", "C">>,
         <<"-", " ", "L", "e", "n", "g", "t", "h", ":", " ", "1", "0", "0", " ", "L", "F">>, <<"-", " ", "D", "e", "p", "t", "h", ":", " ", "9", ".", "0", " ", "f", "t">> >>,
      << <<"#", "#", "#", " ", "S", "t", "o", "r", "m", " ", "P", "i", "p", "e", " ", "2">>, <<"-", " ", "D", "i", "a", "m", "e", "t", "e", "r", ":", " ", "1", "2", " ", "i", "n", "c", "h", "e", "s">>, <<"-", " ", "T", "y", "p", "e", ":", " ", "G", "r", "a", "v", "i", "t", "y", " ", "M", "a", "i", "n">>,
         <<"-", " ", "F", "r", "o", "m", ":", " ", "M", "H", "-", "1">>, <<"-", " ", "T", "o", ":", " ", "M", "H", "-", "2">>, <<"-", " ", "L", "e", "n", "g", "t", "h", ":", " ", "5", "0", ".", "5", " ", "f", "t">>, <<"-", " ", "C", "o", "u", "n", "t", ":", " ", "2">> >>,
      << <<"#", "#", "#", " ", "M", "a", "i", "n", " ", "3">> >>,
      << <<"#", "#", "#", " ", "W", "a", "t", "e", "r", " ", "P", "i", "p", "e", " ", "4">>, <<"-", " ", "M", "a", "t", "e", "r", "i", "a", "l", ":", " ", "D", "u", "c", "t", "i", "l", "e", " ", "I", "r", "o", "n">>, <<"-", " ", "L", "e", "n", "g", "t", "h", ":", " ", "1", ",", "2", "0", "0", " ", "L", "F">> >> }
StructureBlockVocab ==
    { << <<"#", "#", "#", " ", "M", "a", "n", "h", "o", "l", "e", ":", " ", "M", "H", "-", "1">>, <<"-", " ", "I", "D", ":", " ", "M", "H", "-", "1">>, <<"-", " ", "T", "y", "p", "e", ":", " ", "M", "a", "n", "h", "o", "l", "e">>,
         <<"-", " ", "R", "i", "m", " ", "E", "l", "e", "v", "a", "t", "i", "o", "n", ":", " ", "7", "4", "5", ".", "0", " ", "f", "t">> >>,
      << <<"#", "#", "#", " ", "I", "n", "l", "e", "t", ":", " ", "C", "B", "-", "2">> >> }
EarthworkBlockVocab ==
    { << <<"#", "#", "#", " ", "I", "t", "e", "m", " ", "1">>, <<"-", " ", "T", "y", "p", "e", ":", " ", "S", "i", "t", "e", " ", "G", "r", "a", "d", "i", "n", "g">>, <<"-", " ", "V", "o", "l", "u", "m", "e", ":", " ", "1", ",", "2", "0", "0", " ", "C", "Y">> >> }

\* the lines of a section: its heading and its blocks, a blank line after each
RECURSIVE BlockLines(_)
BlockLines(blocks) ==
    IF blocks = <<>> THEN <<>>
    ELSE blocks[1] \o << <<>> >> \o BlockLines(Tail(blocks))
SectionTexts(heading, vocab, n) ==
    {<<>>} \cup {<<heading>> \o BlockLines(bs) : bs \in BoundedSeq(vocab, n)}
RECURSIVE FlatLines(_)
FlatLines(lines) ==
    IF lines = <<>> THEN <<>>
    ELSE lines[1] \o <<"\n">> \o FlatLines(Tail(lines))
\* a document: the three sections, each one missing or with up to two blocks,
\* alone or between a page heading and a summary
MarkdownDocs ==
    {FlatLines(around[1] \o pipes \o structures \o earthwork \o around[2]) :
        around \in {<<<<>>, <<>>>>,
                    <<<<<<"#", " ", "P", "a", "g", "e", " ", "1", " ", "E", "x", "t", "r", "a", "c", "t", "i", "o", "n">>, <<>>>>,
                      <<<<"#", "#", " ", "S", "u", "m", "m", "a", "r", "y">>, <<"-", " ", "T", "o", "t", "a", "l", " ", "P", "i", "p", "e", "s", ":", " ", "2">>, <<"-", " ", "T", "o", "t", "a", "l", " ", "E", "a", "r", "t", "h", "w", "o", "r", "k", " ", "I", "t", "e", "m", "s", ":", " ", "1">>,
                        <<"*", "*", "F", "i", "r", "m", "*", "*", ":", " ", "A", "c", "m", "e">>>>>>},
        pipes \in SectionTexts(<<"#", "#", " ", "P", "i", "p", "e", "s">>, PipeBlockVocab, MaxPipeBlocks),
        structures \in SectionTexts(<<"#", "#", " ", "S", "t", "r", "u", "c", "t", "u", "r", "e", "s">>, StructureBlockVocab, MaxStructureBlocks),
        earthwork \in SectionTexts(<<"#", "#", " ", "E", "a", "r", "t", "h", "w", "o", "r", "k">>, EarthworkBlockVocab, MaxEarthworkBlocks)}

PipelineIdle ==
    /\ pc = "idle"
    /\ min_runs_threshold = 2
    /\ dpi_candidates = DpiCandidates(DefaultDpi)
    /\ dpi_i = 1
    /\ vector_runs = <<>>
    /\ ocr_runs = <<>>
    /\ unique_runs = <<>>
    /\ loop_i = 1
    /\ merged_runs = <<>>
    /\ source = ""
    /\ result = NoResult
    /\ passes = <<>>
    /\ last = NoEvent

InitMarkdown ==
    /\ PipelineIdle
    /\ ExtractorIdle
    /\ md_text \in MarkdownDocs
    /\ md_pc = "pipes"
    /\ md_result = NoParse
    /\ NormalizeIdle
    /\ rerun = FirstCall

\* markdown_parser.py line 37
ParsePipes ==
    /\ md_pc = "pipes"
    /\ md_result' = [md_result EXCEPT !.pipes = extract_pipes(md_text)]
    /\ md_pc' = "structures"
    /\ UNCHANGED <<md_text, pageVars, exVars, nmVars, rerun>>

\* line 38
ParseStructures ==
    /\ md_pc = "structures"
    /\ md_result' = [md_result EXCEPT !.structures = extract_structures(md_text)]
    /\ md_pc' = "earthwork"
    /\ UNCHANGED <<md_text, pageVars, exVars, nmVars, rerun>>

\* line 39
ParseEarthwork ==
    /\ md_pc = "earthwork"
    /\ md_result' = [md_result EXCEPT !.earthwork = extract_earthwork(md_text)]
    /\ md_pc' = "metadata"
    /\ UNCHANGED <<md_text, pageVars, exVars, nmVars, rerun>>

\* lines 40-44: the metadata and the return
ParseReturn ==
    /\ md_pc = "metadata"
    /\ md_result' = [md_result EXCEPT !.metadata = extract_metadata(md_text)]
    /\ md_pc' = "returned"
    /\ UNCHANGED <<md_text, pageVars, exVars, nmVars, rerun>>

NextMarkdown ==
    \/ ParsePipes
    \/ ParseStructures
    \/ ParseEarthwork
    \/ ParseReturn

SpecMarkdown == InitMarkdown /\ [][NextMarkdown]_vars

\* ------------------------------------------------------------------------
\* Two calls on the same stubs
\* ------------------------------------------------------------------------
\* With the page's vector text, the OCR output of each DPI and the BM25
\* ranking fixed, a call is made a second time: the stubs answer the second
\* call as they answered the first.

NoFirst == [vector_runs |-> <<>>, passes |-> <<>>, result |-> NoResult, ex_runs |-> <<>>]

InitRerun ==
    \/ Init
    \/ /\ PipelineIdle
       /\ MarkdownIdle
       /\ NormalizeIdle
       /\ ex_kind \in {"vector", "ocr"}
       /\ \E page \in ExtractPages :
             ex_lines = IF ex_kind = "vector" THEN page_text_spans(page)
                        ELSE OcrLines(page)
       /\ ex_i = 1
       /\ ex_runs = <<>>
       /\ ex_pc = "scan"
       /\ ex_q = 1
       /\ ex_seen = {}
       /\ \E top \in 0..MaxRankedLine :
             /\ top <= Len(ex_lines)
             /\ ex_kind = "vector" => top = 0
             /\ rerun = [call |-> 1, top |-> top, first |-> <<>>]

\* extract_sewer_pipes is called again with the same arguments
CallAgain ==
    /\ pc \in {"returned", "raised"}
    /\ rerun.call = 1
    /\ rerun' = [rerun EXCEPT !.call = 2,
                              !.first = [NoFirst EXCEPT !.vector_runs = vector_runs,
                                                        !.passes = passes,
                                                        !.result = result]]
    /\ pc' = "start"
    /\ dpi_i' = 1
    /\ vector_runs' = <<>>
    /\ ocr_runs' = <<>>
    /\ unique_runs' = <<>>
    /\ loop_i' = 1
    /\ merged_runs' = <<>>
    /\ source' = ""
    /\ result' = NoResult
    /\ passes' = <<>>
    /\ last' = NoEvent
    /\ UNCHANGED <<min_runs_threshold, dpi_candidates, exVars, mdVars, nmVars>>

\* the extractor is called again on the same page
ExtractAgain ==
    /\ ex_pc = "done"
    /\ rerun.call = 1 /\ rerun.top >= 0
    /\ rerun' = [rerun EXCEPT !.call = 2,
                              !.first = [NoFirst EXCEPT !.ex_runs = ex_runs]]
    /\ ex_i' = 1
    /\ ex_runs' = <<>>
    /\ ex_pc' = "scan"
    /\ ex_q' = 1
    /\ ex_seen' = {}
    /\ UNCHANGED <<ex_kind, ex_lines, pageVars, mdVars, nmVars>>

NextRerun ==
    \/ Next
    \/ NextExtract
    \/ CallAgain
    \/ ExtractAgain

SpecRerun == InitRerun /\ [][NextRerun]_vars

\* ------------------------------------------------------------------------
\* Properties of extract_sewer_pipes (specification Spec)
\* ------------------------------------------------------------------------
Terminated == pc \in {"returned", "raised"}
ResultKeys == {"kind", "pipes", "vector_runs", "ocr_runs", "source"}

\* C1: whatever the vector stage and the OCR passes produced,
\* extract_sewer_pipes ends by returning a record with the keys pipes,
\* vector_runs, ocr_runs and source; it never raises.
C1_AlwaysReturnsARecord ==
    Terminated => /\ pc = "returned"
                  /\ result.kind = "return"
                  /\ DOMAIN result = ResultKeys

\* the tag the two lists call for
ExpectedSource ==
    IF vector_runs # <<>> /\ unique_runs = <<>> THEN "vector"
    ELSE IF vector_runs = <<>> /\ unique_runs # <<>> THEN "ocr"
         ELSE IF vector_runs # <<>> /\ unique_runs # <<>> THEN "merged"
              ELSE "none"

\* C2: the call returns source "vector" exactly when the vector list is
\* non-empty and the deduplicated OCR list is empty, "ocr" exactly when the
\* vector list is empty and the OCR list is not, "merged" exactly when both
\* are non-empty, "none" exactly when both are empty; with "none" the three
\* lists of the record are empty.
C2_SourceTagMatchesTheLists ==
    Terminated =>
        /\ result.kind = "return"
        /\ result.source = ExpectedSource
        /\ result.source = "none" =>
              result.pipes = <<>> /\ result.vector_runs = <<>> /\ result.ocr_runs = <<>>

\* ------------------------------------------------------------------------
\* Properties of the reconciler (specification SpecRecon)
\* ------------------------------------------------------------------------
RECURSIVE PipesTotal(_)
PipesTotal(pipes) ==
    IF pipes = <<>> THEN 0 ELSE pipes[1].length_ft + PipesTotal(Tail(pipes))

\* the runs of a list whose length is not None
NonNullLength(runs) == SelectSeq(runs, LAMBDA r : r.length_ft # NoLen)

\* C3: the lengths of the output groups of _aggregate_pipes add up to the
\* lengths of the input runs whose length is not None: nothing is lost and
\* nothing is counted in two groups.
C3_AggregationSound ==
    pc = "returned" =>
        PipesTotal(result.pipes) = SumLengths(NonNullLength(merged_runs))

\* a return with several groups, one of them holding two runs of 117 and
\* 150.5 feet
C3_Witness ==
    /\ pc = "returned"
    /\ Len(result.pipes) >= 2
    /\ \E k \in 1..Len(result.pipes) :
          result.pipes[k].count = 2 /\ result.pipes[k].length_ft = 2675

Conflict(m1, m2) == m1 # None /\ m2 # None /\ m1 # m2

\* C4: in the cross-DPI deduplication and in _merge_runs, a candidate is never
\* absorbed into an entry whose material and the candidate's are both known
\* and different, however close the lengths and whether or not the entry's
\* material came by promotion.
C4_MergeConservative ==
    [][/\ (pc = "dedup" /\ loop_i' = loop_i + 1 /\ last'.into > 0)
            => ~Conflict(ocr_runs[loop_i].material,
                         unique_runs[last'.into].material)
       /\ (pc = "merge" /\ loop_i' = loop_i + 1 /\ last'.into > 0)
            => ~Conflict(ocr_runs[loop_i].material,
                         merged_runs[last'.into].material)]_vars

\* a candidate with a known material was kept apart from an entry within the
\* tolerance whose different material was promoted onto it earlier
C4_Witness ==
    /\ pc = "dedup"
    /\ last.loop = "dedup"
    /\ last.into = 0
    /\ \E k \in 1..(Len(unique_runs) - 1) :
          /\ Conflict(last.run.material, unique_runs[k].material)
          /\ AbsDiff(unique_runs[k].length_ft, last.run.length_ft) < DedupTolTenths
          /\ OcrRunOfLine(unique_runs[k].raw).material = None

\* the material a pipe is listed under, as a grouping value
PipeKey(pipe) ==
    <<pipe.diameter_in, IF pipe.material = Unknown THEN None ELSE pipe.material>>

\* the grouped runs of a material whose diameter is unknown or above 60
UnsizedRuns(runs, material) ==
    SelectSeq(runs, LAMBDA r : /\ Truthy(r.length_ft)
                               /\ r.material = material
                               /\ \/ ResolvedBeforeCeiling(r) = NoDia
                                  \/ ResolvedBeforeCeiling(r) > SizeCeiling)

\* C5: no output pipe has a diameter above 60; a run whose diameter resolves
\* above 60 is counted, with its length, in the null-diameter group of its
\* material.
C5_DiameterCeiling ==
    pc = "returned" =>
        /\ \A k \in 1..Len(result.pipes) : result.pipes[k].diameter_in <= SizeCeiling
        /\ \A i \in 1..Len(merged_runs) :
              LET over == UnsizedRuns(merged_runs, merged_runs[i].material)
              IN  over # <<>> =>
                     \E k \in 1..Len(result.pipes) :
                        /\ PipeKey(result.pipes[k]) = <<NoDia, merged_runs[i].material>>
                        /\ result.pipes[k].length_ft = SumLengths(over)
                        /\ result.pipes[k].count = Len(over)

\* the 90 feet of an 88-inch PVC run are returned in the group (null, PVC)
C5_Witness ==
    /\ pc = "returned"
    /\ \E i \in 1..Len(merged_runs) :
          ResolvedBeforeCeiling(merged_runs[i]) = 88 /\ merged_runs[i].length_ft = 900
    /\ \E k \in 1..Len(result.pipes) :
          /\ PipeKey(result.pipes[k]) = <<NoDia, PVC>>
          /\ result.pipes[k].length_ft = 900

\* C6: when _merge_runs finds an OCR candidate to duplicate a merged entry,
\* the list keeps one entry for the pair; the entry keeps its length_ft,
\* diameter_text, raw and source, and its material becomes the OCR material
\* exactly when it was None and the OCR material is not.
C6_DuplicateKeepsTheEntry ==
    [][(pc = "merge" /\ loop_i' = loop_i + 1 /\ last'.into > 0) =>
          LET k == last'.into
              old == merged_runs[k]
              new == merged_runs'[k]
              ocr_run == ocr_runs[loop_i]
          IN  /\ Len(merged_runs') = Len(merged_runs)
              /\ \A j \in 1..Len(merged_runs) :
                    j # k => merged_runs'[j] = merged_runs[j]
              /\ new.length_ft = old.length_ft
              /\ new.diameter_text = old.diameter_text
              /\ new.raw = old.raw
              /\ new.source = old.source
              /\ new.material = IF old.material = None /\ ocr_run.material # None
                                THEN ocr_run.material ELSE old.material]_vars

\* the vector run of 150.0 feet absorbed the OCR run of 150.5 feet and took
\* its material
C6_Witness ==
    /\ pc = "merge"
    /\ last.loop = "merge"
    /\ last.into > 0
    /\ last.run.length_ft = 1505
    /\ merged_runs[last.into].length_ft = 1500
    /\ merged_runs[last.into].source = "vector"
    /\ merged_runs[last.into].material = PVC

\* C7: _aggregate_pipes emits one entry per (resolved diameter, material) pair
\* occurring among its input runs; the entry's length_ft is the sum of its
\* member runs' lengths and its count their number; every input run is a
\* member of one group, null diameter and null material being values of
\* their own.
C7_OneEntryPerKey ==
    pc = "returned" =>
        LET pipes == result.pipes
            members(key) == SelectSeq(merged_runs, LAMBDA r : GroupKey(r) = key)
        IN  /\ \A i, j \in 1..Len(pipes) : PipeKey(pipes[i]) = PipeKey(pipes[j]) => i = j
            /\ \A i \in 1..Len(merged_runs) :
                  \E k \in 1..Len(pipes) : PipeKey(pipes[k]) = GroupKey(merged_runs[i])
            /\ \A k \in 1..Len(pipes) :
                  /\ pipes[k].count = Len(members(PipeKey(pipes[k])))
                  /\ pipes[k].length_ft = SumLengths(members(PipeKey(pipes[k])))

\* ------------------------------------------------------------------------
\* Properties of the two extractors (specification SpecExtract)
\* ------------------------------------------------------------------------
\* C8: every run the vector extractor, the direct OCR scan or the OCR recovery
\* step emits is well-formed: its length_ft is not None and its diameter_text
\* and material are not both None.
C8_RunsAreWellFormed ==
    \A k \in 1..Len(ex_runs) :
        /\ ex_runs[k].length_ft # NoLen
        /\ ex_runs[k].diameter_text # None \/ ex_runs[k].material # None

\* the OCR extractor returned a run read with a diameter and no material
\* beside a run the recovery step added with a material and no diameter
C8_Witness ==
    /\ ex_kind = "ocr"
    /\ ex_pc = "done"
    /\ ex_seen # {}
    /\ \E k \in 1..Len(ex_runs) :
          ex_runs[k].material = None /\ ex_runs[k].diameter_text # None
    /\ \E k \in 1..Len(ex_runs) :
          /\ ex_runs[k].diameter_text = None /\ ex_runs[k].material # None
          /\ ex_runs[k].raw \in ex_seen
          /\ OcrRunOfLine(ex_runs[k].raw) = NoRun

\* a length token as it is written: a digit, optional whitespace, then the
\* unit marker LF in either case
LengthTokenAt(s, i) ==
    /\ i <= Len(s)
    /\ IsDigit(s[i])
    /\ LitAtI(s, RunEnd(s, i + 1, Spaces) + 1, <<"L", "F">>)
HasLengthToken(s) == \E i \in 1..Len(s) : LengthTokenAt(s, i)

\* C9 as stated: a block or line that holds no length token (a number
\* followed by LF) yields no run, in the vector extractor and in the OCR
\* extractor.
C9_NoLengthTokenNoRun ==
    \A k \in 1..Len(ex_runs) : HasLengthToken(ex_runs[k].raw)

\* C9 with the OCR lines read as the extractor reads them: a vector block
\* that holds no length token yields no run, and an OCR line yields no run
\* when its repaired form (upper-cased, a glued LF, 1F or IF set apart,
\* letter-for-digit slips before LF undone) holds no length token.
C9_NoLengthAfterRepairNoRun ==
    \A k \in 1..Len(ex_runs) :
        IF ex_kind = "vector" THEN HasLengthToken(ex_runs[k].raw)
        ELSE HasLengthToken(OcrRepair(ex_runs[k].raw))

\* the OCR extractor passed over a line with a diameter and a material and no
\* length token, and took a run from a line that holds a length token only
\* once it is repaired
C9_Witness ==
    /\ ex_kind = "ocr"
    /\ ex_pc = "done"
    /\ \E i \in 1..Len(ex_lines) :
          /\ ~HasLengthToken(OcrRepair(ex_lines[i]))
          /\ Matched(OCR_DIAMETER_RE_search(ex_lines[i]))
          /\ \A k \in 1..Len(ex_runs) : ex_runs[k].raw # ex_lines[i]
    /\ \E k \in 1..Len(ex_runs) : ~HasLengthToken(ex_runs[k].raw)

\* the tokens and cues a line may carry, read generously: a diameter is a
\* digit before any inch mark, a material any spelling either extractor
\* knows, a DIP cue any of the words the direct scan takes for one
HasDiameterToken(s) ==
    \E i \in 1..Len(s) :
        /\ IsDigit(s[i])
        /\ RunEnd(s, i + 1, Spaces) + 1 <= Len(s)
        /\ s[RunEnd(s, i + 1, Spaces) + 1] \in VectorInchMarks
HasMaterialToken(s) ==
    \E w \in {<<"P", "V", "C">>, <<"D", "I", "P">>, <<"R", "C", "P">>, <<"H", "D", "P", "E">>, <<"P", "N", "Y">>, <<"D", ".", "I", ".", "P">>, <<"D", ".", "1", ".", "P">>} :
        Contains(upper(s), w)
HasDipCue(s) ==
    \E w \in {<<"D", "U", "C", "T", "I", "L", "E">>, <<"I", "R", "O", "N">>, <<"S", "I", "P">>, <<"D", ".", "I", ".", "P">>, <<"D", ".", "1", ".", "P">>, <<"D", "I", "P">>} :
        Contains(upper(s), w)

\* C10: a line with a length token and no diameter token, no material token
\* and no DIP cue yields no run, in the vector extractor and in the OCR
\* extractor; the scan goes on to the remaining lines.
C10_BareLengthYieldsNoRun ==
    /\ \A k \in 1..Len(ex_runs) :
          \/ HasDiameterToken(ex_runs[k].raw)
          \/ HasMaterialToken(ex_runs[k].raw)
          \/ HasDipCue(ex_runs[k].raw)
    /\ ex_pc \in {"recover", "done"} => ex_i = Len(ex_lines) + 1

\* ------------------------------------------------------------------------
\* The OCR fallback of extract_sewer_pipes (specification Spec)
\* ------------------------------------------------------------------------
\* the resolutions the OCR fallback is to try for a primary resolution
ExpectedDpiList(dpi) ==
    <<dpi>> \o (IF dpi = FallbackDpi1 THEN <<>> ELSE <<FallbackDpi1>>)
            \o (IF dpi = FallbackDpi2 THEN <<>> ELSE <<FallbackDpi2>>)
PassDpis == [k \in 1..Len(passes) |-> passes[k].dpi]
OcrLoopOver == pc \notin {"start", "ocr"}

\* C11: the vector stage runs first; OCR passes are made exactly when the
\* vector stage found fewer runs than min_runs_threshold (none included), one
\* pass at each resolution of [dpi, 350, 300] without repeats, in that order,
\* also after a pass that found runs; otherwise no pass is made and ocr_runs
\* is empty.
C11_OcrExactlyBelowThreshold ==
    /\ pc = "start" => passes = <<>>
    /\ pc = "ocr" =>
          /\ Len(vector_runs) < min_runs_threshold
          /\ PassDpis = SubSeq(ExpectedDpiList(dpi_candidates[1]), 1, Len(passes))
    /\ OcrLoopOver =>
          IF Len(vector_runs) < min_runs_threshold
          THEN PassDpis = ExpectedDpiList(dpi_candidates[1])
          ELSE passes = <<>> /\ ocr_runs = <<>> /\ unique_runs = <<>>

\* one vector run under a threshold of 2: three passes at 450, 350 and 300,
\* the second and third made although the first found runs
C11_Witness ==
    /\ pc = "dedup"
    /\ Len(vector_runs) = 1
    /\ PassDpis = <<DefaultDpi, FallbackDpi1, FallbackDpi2>>
    /\ passes[1].runs # <<>>
    /\ passes[2].runs # <<>>

RECURSIVE PassRuns(_)
PassRuns(ps) == IF ps = <<>> THEN <<>> ELSE ps[1].runs \o PassRuns(Tail(ps))

DedupKeepsKnownMaterial ==
    (pc = "dedup" /\ loop_i' = loop_i + 1 /\ last'.into > 0) =>
        LET old == unique_runs[last'.into]
            new == unique_runs'[last'.into]
            run == ocr_runs[loop_i]
        IN  /\ Len(unique_runs') = Len(unique_runs)
            /\ old.material # None => new.material = old.material
            /\ (old.material = None /\ run.material # None) =>
                  new.material = run.material

\* C13 as stated: the deduplicated OCR list never holds two candidates whose
\* lengths differ by less than 1, and a merge of a null-material candidate
\* with a known-material one leaves the known material on the entry.
C13_NoTwoWithinOneFoot ==
    /\ [](\A i, j \in 1..Len(unique_runs) :
             i # j => AbsDiff(unique_runs[i].length_ft,
                              unique_runs[j].length_ft) >= DedupTolTenths)
    /\ [][DedupKeepsKnownMaterial]_vars

\* C13 with the material test of the code: two candidates of the deduplicated
\* OCR list whose lengths differ by less than 1 have materials that are both
\* known and different; a merge of a null-material candidate with a
\* known-material one leaves the known material on the entry.
C13_WithinOneFootOnlyIfMaterialsDiffer ==
    /\ [](\A i, j \in 1..Len(unique_runs) :
             (i # j /\ AbsDiff(unique_runs[i].length_ft,
                               unique_runs[j].length_ft) < DedupTolTenths)
                => Conflict(unique_runs[i].material, unique_runs[j].material))
    /\ [][DedupKeepsKnownMaterial]_vars

\* three candidates within 1 foot deduplicated to two: the first took the
\* material of the second, the third has another material and stays
C13_Witness ==
    /\ pc = "dedup"
    /\ loop_i > Len(ocr_runs)
    /\ Len(ocr_runs) = 3
    /\ Len(unique_runs) = 2
    /\ AbsDiff(unique_runs[1].length_ft, unique_runs[2].length_ft) < DedupTolTenths
    /\ Conflict(unique_runs[1].material, unique_runs[2].material)
    /\ ocr_runs[1].material = None

\* the duplicate rule: lengths less than 2 apart, materials equal or one
\* of them null
MergeRule(entry, ocr_run) ==
    /\ AbsDiff(ocr_run.length_ft, entry.length_ft) < MergeTolTenths
    /\ \/ ocr_run.material = entry.material
       \/ ocr_run.material = None
       \/ entry.material = None

\* C14: in _merge_runs every vector run is in the merged list with source
\* "vector"; an OCR candidate is a duplicate of a merged entry exactly when
\* their lengths are less than 2 apart and their materials are equal or one
\* of them is null; an OCR candidate that duplicates no entry is appended
\* once, with source "ocr".
C14_MergeRule ==
    /\ [](pc = "merge" =>
            /\ Len(merged_runs) >= Len(vector_runs)
            /\ \A k \in 1..Len(vector_runs) :
                  /\ merged_runs[k].source = "vector"
                  /\ merged_runs[k].raw = vector_runs[k].raw
                  /\ merged_runs[k].length_ft = vector_runs[k].length_ft)
    /\ [][(pc = "merge" /\ loop_i' = loop_i + 1) =>
            LET ocr_run == ocr_runs[loop_i]
            IN  IF \E k \in 1..Len(merged_runs) : MergeRule(merged_runs[k], ocr_run)
                THEN Len(merged_runs') = Len(merged_runs)
                ELSE merged_runs' =
                        Append(merged_runs,
                               [cls |-> "dict",
                                length_ft |-> ocr_run.length_ft,
                                diameter_text |-> ocr_run.diameter_text,
                                material |-> ocr_run.material,
                                raw |-> ocr_run.raw,
                                source |-> "ocr"])]_vars

\* two runs are duplicates of each other: lengths within the narrower of the
\* two tolerances, materials equal or one of them null
ApproxEqual(r1, r2) ==
    /\ AbsDiff(r1.length_ft, r2.length_ft) < DedupTolTenths
    /\ ~Conflict(r1.material, r2.material)

\* C15: on every path, the list handed to the aggregation holds no two runs
\* that are duplicates of each other (lengths within the tolerance, materials
\* equal or either null), be they two vector runs, two OCR runs or one of
\* each.
C15_NoDuplicatesAggregated ==
    pc = "aggregate" =>
        \A i, j \in 1..Len(merged_runs) :
            i # j => ~ApproxEqual(merged_runs[i], merged_runs[j])

\* ------------------------------------------------------------------------
\* Diameter resolution (specification SpecRecon)
\* ------------------------------------------------------------------------
\* the places of a raw text where LF is followed, after at most 6 characters
\* none of which is a digit, by a one- or two-digit number and an inch mark:
\* <<i, n>> is LF at i with n characters between it and the number
NearLfPlaces(raw) ==
    {p \in (1..Len(raw)) \X (0..6) :
        /\ LitAtI(raw, p[1], <<"L", "F">>)
        /\ \A k \in 1..p[2] :
              p[1] + 1 + k <= Len(raw) /\ ~IsDigit(raw[p[1] + 1 + k])
        /\ Matched(DiameterAt(raw, p[1] + 2 + p[2], AggregateInchMarks))}
\* the number a diameter token starting at i reads
DiameterValueAt(s, i) ==
    IntOf(group1(s, DiameterAt(s, i, AggregateInchMarks)), 1, 0)
\* the fixed order of the three sources
PriorityDiameter(run) ==
    LET near == NearLfPlaces(run.raw)
        first == MinPos({p[1] : p \in near})
        own == {i \in 1..Len(run.diameter_text) : IsDigit(run.diameter_text[i])}
        wide == {i \in 1..Len(run.raw) :
                    Matched(DiameterAt(run.raw, i, AggregateInchMarks))}
    IN  IF near # {}
        THEN DiameterValueAt(run.raw,
                             first + 2 + (CHOOSE n \in 0..6 : <<first, n>> \in near))
        ELSE IF own # {}
             THEN LET i == MinPos(own)
                      two == i + 1 \in own
                  IN  IntOf(SubSeq(run.diameter_text, i, IF two THEN i + 1 ELSE i), 1, 0)
             ELSE IF wide # {} THEN DiameterValueAt(run.raw, MinPos(wide))
                  ELSE NoDia
Capped(diameter) == IF diameter > SizeCeiling THEN NoDia ELSE diameter

\* C19: _aggregate_pipes takes a run's diameter (1) from a one- or two-digit
\* number with an inch mark within 6 non-digit characters after LF in the raw
\* text, else (2) from the number in the run's diameter_text, else (3) from
\* the first diameter token of the raw text, else null; source (1) wins over
\* a different number in diameter_text.
C19_DiameterPriority ==
    pc = "returned" =>
        /\ \A i \in 1..Len(merged_runs) :
              Truthy(merged_runs[i].length_ft) =>
                 \E k \in 1..Len(result.pipes) :
                    PipeKey(result.pipes[k]) =
                       <<Capped(PriorityDiameter(merged_runs[i])), merged_runs[i].material>>
        /\ \A k \in 1..Len(result.pipes) :
              \E i \in 1..Len(merged_runs) :
                 PipeKey(result.pipes[k]) =
                    <<Capped(PriorityDiameter(merged_runs[i])), merged_runs[i].material>>

\* a run whose diameter_text reads 12 is listed under the 8 that follows LF,
\* and a run without diameter_text under the 8 found elsewhere in its raw text
C19_Witness ==
    /\ pc = "returned"
    /\ \E i \in 1..Len(merged_runs) :
          /\ merged_runs[i].diameter_text = <<"1", "2", "\"">>
          /\ merged_runs[i].material = PVC
    /\ \E i \in 1..Len(merged_runs) :
          /\ merged_runs[i].diameter_text = None
          /\ merged_runs[i].material = DIP
          /\ NearLfPlaces(merged_runs[i].raw) = {}
    /\ {PipeKey(result.pipes[k]) : k \in 1..Len(result.pipes)} = {<<8, PVC>>, <<8, DIP>>}

\* ------------------------------------------------------------------------
\* The recovery condition (specification SpecExtract)
\* ------------------------------------------------------------------------
\* the lines of the page direct scanning takes a run from
DirectlyScanned == {i \in 1..Len(ex_lines) : OcrRunOfLine(ex_lines[i]) # NoRun}
FewRunsManyLines == Cardinality(DirectlyScanned) < 3 /\ Len(ex_lines) > 5
RecoveryRan == ex_q > 1 \/ ex_pc = "recover"

\* C20: within one pass of the OCR extractor the recovery step runs if and
\* only if direct scanning of all lines produced fewer than 3 candidates and
\* the page has more than 5 non-empty lines; when it does not run the pass
\* returns exactly the directly scanned candidates.
C20_RecoveryExactlyWhenFewRunsManyLines ==
    ex_kind = "ocr" =>
        /\ RecoveryRan => FewRunsManyLines
        /\ ex_pc = "done" =>
              IF FewRunsManyLines
              THEN ex_q = Len(dip_queries) + 1
              ELSE /\ ~RecoveryRan
                   /\ ex_seen = {}
                   /\ ex_runs = OcrDirectRuns(ex_lines)

\* a pass over seven lines with three directly scanned runs has returned them
\* without recovery
C20_Witness ==
    /\ ex_kind = "ocr" /\ ex_pc = "done"
    /\ Len(ex_lines) = 7
    /\ Len(ex_runs) = 3
    /\ ex_q = 1

\* a pass over five non-empty lines with one run has returned without
\* recovery, and a pass over six lines with two runs has run every query
C20_WitnessBoundary ==
    /\ ex_kind = "ocr" /\ ex_pc = "done"
    /\ \/ Len(ex_lines) = 5 /\ Len(ex_runs) = 1 /\ ex_q = 1
       \/ Len(ex_lines) = 6 /\ Cardinality(DirectlyScanned) = 1 /\ ex_q = Len(dip_queries) + 1

\* ------------------------------------------------------------------------
\* Properties of the markdown parser (specification SpecMarkdown)
\* ------------------------------------------------------------------------
\* the lines of a text
RECURSIVE LinesOf(_)
LinesOf(text) ==
    LET breaks == {i \in 1..Len(text) : text[i] = "\n"}
    IN  IF text = <<>> THEN <<>>
        ELSE IF breaks = {} THEN <<text>>
             ELSE <<Slice(text, 1, MinPos(breaks) - 1)>>
                  \o LinesOf(Slice(text, MinPos(breaks) + 1, Len(text)))
\* the lines between the heading "## name" and the next "## " heading
SectionLines(text, name) ==
    LET lines == LinesOf(text)
        heads == {k \in 1..Len(lines) : lines[k] = <<"#", "#", " ">> \o name}
        later == {k \in 1..Len(lines) : k > MinPos(heads) /\ LitAt(lines[k], 1, <<"#", "#", " ">>)}
    IN  IF heads = {} THEN <<>>
        ELSE SubSeq(lines, MinPos(heads) + 1,
                    IF later = {} THEN Len(lines) ELSE MinPos(later) - 1)
\* the '### ' blocks of a section, each one the lines under its heading
BlocksOf(text, name) ==
    LET lines == SectionLines(text, name)
        starts == {k \in 1..Len(lines) : LitAt(lines[k], 1, <<"#", "#", "#", " ">>)}
        Nth(n) == CHOOSE k \in starts : Cardinality({j \in starts : j <= k}) = n
    IN  [n \in 1..Cardinality(starts) |->
            SubSeq(lines, Nth(n) + 1,
                   IF n = Cardinality(starts) THEN Len(lines) ELSE Nth(n + 1) - 1)]

\* C17: parse_markdown_to_json returns one pipe record for every '### ' block
\* of the '## Pipes' section, one structure record for every block of
\* '## Structures' and one earthwork record for every block of
\* '## Earthwork': a section with n blocks gives a list of n entries.
C17_OneRecordPerBlock ==
    md_pc = "returned" =>
        /\ Len(md_result.pipes) = Len(BlocksOf(md_text, <<"P", "i", "p", "e", "s">>))
        /\ Len(md_result.structures) = Len(BlocksOf(md_text, <<"S", "t", "r", "u", "c", "t", "u", "r", "e", "s">>))
        /\ Len(md_result.earthwork) = Len(BlocksOf(md_text, <<"E", "a", "r", "t", "h", "w", "o", "r", "k">>))

\* what a block writes for a key: the text after "- Key:" on the first line
\* that starts with it, NotWritten when there is no such line
NotWritten == <<"\n">>
Written(block, key) ==
    LET head == <<"-", " ">> \o key \o <<":">>
        at == {k \in 1..Len(block) : LitAt(block[k], 1, head)}
    IN  IF at = {} THEN NotWritten
        ELSE Strip(Slice(block[MinPos(at)], Len(head) + 1, Len(block[MinPos(at)])))
\* the number a written value starts with, 1,200 being 1200
WrittenNumber(value) ==
    FloatOf(Without(Slice(value, 1, RunEnd(value, 1, Digits \cup {".", ","})), {","}))
\* the pipe fields with a documented default
DocumentedFields ==
    { [key |-> <<"D", "i", "a", "m", "e", "t", "e", "r">>, field |-> "diameter_in", numeric |-> TRUE, default |-> Zero],
      [key |-> <<"M", "a", "t", "e", "r", "i", "a", "l">>, field |-> "material", numeric |-> FALSE, default |-> Unknown],
      [key |-> <<"C", "o", "u", "n", "t">>, field |-> "count", numeric |-> TRUE, default |-> One],
      [key |-> <<"L", "e", "n", "g", "t", "h">>, field |-> "length_ft", numeric |-> TRUE, default |-> Zero],
      [key |-> <<"D", "e", "p", "t", "h">>, field |-> "depth_ft", numeric |-> TRUE, default |-> Zero],
      [key |-> <<"T", "y", "p", "e">>, field |-> "type", numeric |-> FALSE, default |-> <<"P", "i", "p", "e">>],
      [key |-> <<"F", "r", "o", "m">>, field |-> "from", numeric |-> FALSE, default |-> <<>>],
      [key |-> <<"T", "o">>, field |-> "to", numeric |-> FALSE, default |-> <<>>] }

\* C18: in every pipe record the parser returns, a field written in its block
\* as a '- Key: value' line has the value written, and a field not written
\* has its default: material "Unknown", count 1, diameter_in 0, length_ft 0,
\* depth_ft 0, type "Pipe", from and to the empty string.
C18_WrittenValueOrDefault ==
    md_pc = "returned" =>
        \A k \in 1..Len(md_result.pipes) :
           \A f \in DocumentedFields :
              LET value == Written(BlocksOf(md_text, <<"P", "i", "p", "e", "s">>)[k], f.key)
              IN  md_result.pipes[k][f.field] =
                     IF value = NotWritten THEN f.default
                     ELSE IF f.numeric THEN WrittenNumber(value) ELSE value

C16_WitnessExtractor ==
    /\ rerun.call = 2
    /\ ex_kind = "ocr" /\ ex_pc = "done"
    /\ ex_seen # {}
    /\ Len(ex_runs) > Len(OcrDirectRuns(ex_lines))

\* ------------------------------------------------------------------------
\* The recovery step, query by query (specification SpecExtract)
\* ------------------------------------------------------------------------
\* the length the repair and the length pattern read from a line
RepairedLength(line) ==
    LET Read(norm) == FloatTenths(group1(norm, OcrLengthMatch(norm)))
    IN  Read(OcrRepair(line))

\* C21: a query of the recovery step leaves the list as it is or appends one
\* candidate; the appended candidate is the line ranked first for this query
\* with a score above the threshold, re-parsed after the repair, it is not the
\* text of a candidate already held, and its length is 5 or more away from
\* every candidate held, those appended by earlier queries included.
C21_RecoveryAddsOnlyNewLengths ==
    [][(ex_kind = "ocr" /\ ex_pc = "recover" /\ ex_q' = ex_q + 1) =>
          \/ ex_runs' = ex_runs
          \/ /\ Len(ex_runs') = Len(ex_runs) + 1
             /\ SubSeq(ex_runs', 1, Len(ex_runs)) = ex_runs
             /\ LET new == ex_runs'[Len(ex_runs')]
                IN  /\ new.raw \notin ex_seen
                    /\ ex_seen' = ex_seen \cup {new.raw}
                    /\ new.raw \in Range(ex_lines)
                    /\ new.length_ft = RepairedLength(new.raw)
                    /\ \A k \in 1..Len(ex_runs) :
                          /\ ex_runs[k].raw # new.raw
                          /\ AbsDiff(ex_runs[k].length_ft, new.length_ft)
                                >= RecoveryTolTenths]_vars

\* a pass has returned one directly scanned candidate and one appended by
\* the recovery step, every query made
C21_Witness ==
    /\ ex_kind = "ocr" /\ ex_pc = "done"
    /\ ex_q = Len(dip_queries) + 1
    /\ Cardinality(DirectlyScanned) = 1
    /\ Len(ex_runs) = 2
    /\ Cardinality(ex_seen) = 2

\* ------------------------------------------------------------------------
\* The secondary DIP cue of the OCR extractor (specification SpecExtract)
\* ------------------------------------------------------------------------
\* the cue as ocr_profile_runs applies it (ocr_extract.py lines 72-76):
\* DUCTILE and IRON both in the line, or the literal D.I.P or SIP
SecondaryDipCue(s) ==
    \/ Contains(upper(s), <<"D", "U", "C", "T", "I", "L", "E">>) /\ Contains(upper(s), <<"I", "R", "O", "N">>)
    \/ Contains(upper(s), <<"D", ".", "I", ".", "P">>)
    \/ Contains(upper(s), <<"S", "I", "P">>)

\* C22: a candidate of ocr_profile_runs_strict_segments whose line has
\* neither a diameter token nor a material token carries the secondary DIP
\* cue: DUCTILE together with IRON, or SIP, or D.I.P; a line with only one of
\* DUCTILE and IRON is not a candidate.
C22_CandidateWithoutTokensHasTheCue ==
    ex_kind = "ocr" =>
        \A k \in 1..Len(ex_runs) :
            (~HasDiameterToken(ex_runs[k].raw) /\ ~HasMaterialToken(ex_runs[k].raw))
                => SecondaryDipCue(ex_runs[k].raw)

\* ------------------------------------------------------------------------
\* The materials of the candidates (specification SpecExtract)
\* ------------------------------------------------------------------------
CanonicalMaterials == {PVC, DIP, RCP, HDPE}
\* the spellings documented for a material
MaterialSpellings(material) ==
    IF material = DIP THEN {<<"D", "I", "P">>, <<"D", ".", "I", ".", "P", ".">>, <<"D", "U", "C", "T", "I", "L", "E", " ", "I", "R", "O", "N">>, <<"S", "I", "P">>}
    ELSE IF material = PVC THEN {<<"P", "V", "C">>, <<"P", "N", "Y">>}
         ELSE {material}
\* the line spells `material` as a word and holds no spelling of another one
OnlyMaterialToken(s, material) ==
    /\ \E w \in MaterialSpellings(material) :
          \E i \in 1..Len(s) :
              /\ LitAtI(s, i, w)
              /\ WordStartsAt(s, i)
              /\ i + Len(w) - 1 = Len(s) \/ ~IsLetter(s[i + Len(w)])
    /\ \A other \in CanonicalMaterials \ {material} :
          \A w \in MaterialSpellings(other) : ~Contains(upper(s), w)

\* C23: every candidate of either extractor has a material of PVC, DIP, RCP,
\* HDPE or null, and a scanned line with a length token whose only material
\* token spells one of the four (or a documented alias) has yielded a
\* candidate with exactly that material.
C23_CanonicalMaterialOfTheLine ==
    /\ \A k \in 1..Len(ex_runs) :
          ex_runs[k].material \in CanonicalMaterials \cup {None}
    /\ \A i \in 1..Len(ex_lines) :
          (/\ i < ex_i /\ ex_pc # "failed"
           /\ HasLengthToken(ex_lines[i])
           /\ Matched(LENGTH_RE_search(ex_lines[i]))) =>
              \A material \in CanonicalMaterials :
                  OnlyMaterialToken(ex_lines[i], material) =>
                      \E k \in 1..Len(ex_runs) :
                          /\ ex_runs[k].raw = Collapse(ex_lines[i])
                          /\ ex_runs[k].material = material

\* ------------------------------------------------------------------------
\* The noise repair of the length (specification SpecExtract)
\* ------------------------------------------------------------------------
\* the unit marker LF, in any letter case, begins at j
LfMarkerAt(s, j) == j >= 1 /\ LitAtI(s, j, <<"L", "F">>)
\* the position before the marker j and before the whitespace in front of it
RECURSIVE BeforeSpaces(_, _)
BeforeSpaces(s, j) ==
    IF j >= 1 /\ IsSpace(s[j]) THEN BeforeSpaces(s, j - 1) ELSE j
\* the first position of the run of class characters that ends at e
RECURSIVE RunStart(_, _)
RunStart(s, e) ==
    IF e >= 1 /\ s[e] \in OcrDigitClass THEN RunStart(s, e - 1) ELSE e + 1
\* the run of digits and i, I, l, L, o, O glued to the marker at j or set
\* apart from it by whitespace
RunBeforeMarker(s, j) ==
    LET e == BeforeSpaces(s, j - 1)
    IN  Slice(s, RunStart(s, e), e)
\* the number read from a run once the letters are taken for digits
RunValue(run) ==
    LET Value(digits) == IntOf(digits, 1, 0) * 10
    IN  Value([k \in 1..Len(run) |->
                  IF run[k] \in {"i", "I", "l", "L"} THEN "1"
                  ELSE IF run[k] \in {"o", "O"} THEN "0" ELSE run[k]])
\* the one or two digits of a diameter token right after the marker at j
DiameterAfterMarker(s, j) ==
    LET w == RunEnd(s, j + 2, Spaces \cup {"_"})
        d == RunEnd(s, w + 1, Digits)
        q == RunEnd(s, d + 1, Spaces)
    IN  IF d >= w + 1 /\ d <= w + 2 /\ q + 1 <= Len(s) /\ s[q + 1] = "\""
        THEN Slice(s, w + 1, d) ELSE None
\* the candidate the scan holds for line i, NoRun when it holds none
CandidateOf(i) ==
    IF \E k \in 1..Len(ex_runs) : ex_runs[k].raw = ex_lines[i]
    THEN ex_runs[CHOOSE k \in 1..Len(ex_runs) : ex_runs[k].raw = ex_lines[i]]
    ELSE NoRun
\* what the repair owes a scanned line whose marker at j follows a run of two
\* or more class characters
RepairedAsTheRun(i, j) ==
    LET line == ex_lines[i]
        run == RunBeforeMarker(line, j)
    IN  /\ RepairedLength(line) = RunValue(run)
        /\ CandidateOf(i) # NoRun => CandidateOf(i).length_ft = RunValue(run)
        /\ DiameterAfterMarker(line, j) # None =>
              /\ CandidateOf(i) # NoRun
              /\ CandidateOf(i).diameter_text # None
              /\ IntOf(CandidateOf(i).diameter_text, 1, 0)
                    = IntOf(DiameterAfterMarker(line, j), 1, 0)

FirstMarkerAt(s, j) ==
    /\ LfMarkerAt(s, j)
    /\ \A h \in 1..(j - 1) :
          ~(LitAtI(s, h, <<"L", "F">>) \/ LitAtI(s, h, <<"1", "F">>) \/ LitAtI(s, h, <<"I", "F">>))
\* the run before the marker at j is a whole number, not the decimals of one
WholeNumberBefore(s, j) ==
    LET b == RunStart(s, BeforeSpaces(s, j - 1))
    IN  b = 1 \/ s[b - 1] # "."

MaterialTokens ==
    {<<"P", "V", "C">>, <<"p", "v", "c">>, <<"P", "v", "c">>, <<"P", ".", "V", ".", "C", ".">>, <<"P", "-", "V", "-", "C">>, <<"P", " ", "V", " ", "C">>, <<"P", "N", "Y">>, <<"P", "V", "C", ",">>, <<"P", "V", "C", "=">>, <<"P", "V", "G">>, <<"P", "Y", "C">>,
     <<"D", "I", "P">>, <<"d", "i", "p">>, <<"D", ".", "I", ".", "P", ".">>, <<"D", ".", "I", ".", "P">>, <<"D", "-", "I", "-", "P">>, <<"D", ".", "1", ".", "P">>, <<"D", "1", "P">>, <<"D", "|", "P">>, <<"S", "I", "P">>, <<"D", "I">>, <<"D", "I", "P", "P">>,
     <<"D", "I", "P", " ", "P", "I", "P", "E">>, <<"D", "U", "C", "T", "I", "L", "E", " ", "I", "R", "O", "N">>, <<"D", "u", "c", "t", "i", "l", "e", " ", "I", "r", "o", "n">>, <<"D", "U", "C", "T", "I", "L", "E", "-", "I", "R", "O", "N">>, <<"D", "U", "C", "T", "I", "L", "E", "I", "R", "O", "N">>, <<"D", "U", "C", "T", "I", "L", "E", " ", "I", "R", "O", "N", " ", "P", "I", "P", "E">>,
     <<"R", "C", "P">>, <<"r", "c", "p">>, <<"R", ".", "C", ".", "P", ".">>, <<"R", "C", "P", "P">>, <<"H", "D", "P", "E">>, <<"h", "d", "p", "e">>, <<"H", ".", "D", ".", "P", ".", "E", ".">>, <<"H", "D", "-", "P", "E">>,
     <<"S", "T", "E", "E", "L">>, <<"S", "t", "e", "e", "l">>, <<"V", "C", "P">>, <<"v", "c", "p">>, <<"C", ".", "M", ".", "P", ".">>, <<"C", "A", "S", "T", " ", "I", "R", "O", "N">>, <<"c", "a", "s", "t", "-", "i", "r", "o", "n">>, <<"C", "I">>, <<"-">>, <<".">>}

InitNormalize ==
    /\ PipelineIdle
    /\ ExtractorIdle
    /\ MarkdownIdle
    /\ rerun = FirstCall
    /\ token \in MaterialTokens
    /\ nm_fn \in {"vector", "ocr"}
    /\ nm_out = <<>>

\* the argument of the next call: the token, then the value returned for it
NormalizeArgument == IF nm_out = <<>> THEN token ELSE nm_out[Len(nm_out)]

\* vector_extract.py lines 30-50
VectorNormalize ==
    /\ nm_fn = "vector"
    /\ Len(nm_out) < 2
    /\ nm_out' = Append(nm_out, vector_normalize_material(NormalizeArgument))
    /\ UNCHANGED <<token, nm_fn, pageVars, exVars, mdVars, rerun>>

\* ocr_extract.py lines 24-34
OcrNormalize ==
    /\ nm_fn = "ocr"
    /\ Len(nm_out) < 2
    /\ nm_out' = Append(nm_out, ocr_normalize_material(NormalizeArgument))
    /\ UNCHANGED <<token, nm_fn, pageVars, exVars, mdVars, rerun>>

NextNormalize == VectorNormalize \/ OcrNormalize

SpecNormalize == InitNormalize /\ [][NextNormalize]_vars

\* ------------------------------------------------------------------------
\* C25
\* ------------------------------------------------------------------------
\* the token uppercased and stripped of '.', spaces and hyphens
StrippedForm(tk) == Without(upper(tk), {".", " ", "-"})

\* the alias table of vector_extract.py, as pairs <<alias, canonical material>>
VectorAliases ==
    {<<a, DIP>> : a \in {<<"D", "I", "P">>, <<"D", "U", "C", "T", "I", "L", "E", "I", "R", "O", "N">>, <<"D", "U", "C", "T", "I", "L", "E", "I", "R", "O", "N", "P", "I", "P", "E">>, <<"D", "1", "P">>, <<"D", "|", "P">>, <<"D", "I", "P", "P", "I", "P", "E">>, <<"S", "I", "P">>,
                         <<"D", "I">>, <<"D", "I", "P", "P">>}}
    \cup {<<a, PVC>> : a \in {<<"P", "V", "C">>, <<"P", "N", "Y">>, <<"P", "V", "C", ",">>, <<"P", "V", "C", "=">>, <<"P", "V", "G">>, <<"P", "Y", "C">>}}
    \cup {<<a, RCP>> : a \in {<<"R", "C", "P">>, <<"R", "C", "P", "P">>}}
    \cup {<<HDPE, HDPE>>}

\* the alias table of ocr_extract.py
OcrAliases ==
    {<<a, DIP>> : a \in {<<"D", "I", "P">>, <<"D", "U", "C", "T", "I", "L", "E", "I", "R", "O", "N">>, <<"D", "U", "C", "T", "I", "L", "E", "I", "R", "O", "N", "P", "I", "P", "E">>, <<"D", "1", "P">>, <<"D", "|", "P">>, <<"D", "I", "P", "P", "I", "P", "E">>, <<"S", "I", "P">>}}
    \cup {<<PVC, PVC>>, <<RCP, RCP>>, <<HDPE, HDPE>>}

AliasesOf(fn) == IF fn = "vector" THEN VectorAliases ELSE OcrAliases

\* what the table of the module gives for the stripped form of the token, and
\* the token uppercased when the stripped form is no alias
TableLookup(fn, tk) ==
    IF \E e \in AliasesOf(fn) : e[1] = StrippedForm(tk)
    THEN (CHOOSE e \in AliasesOf(fn) : e[1] = StrippedForm(tk))[2]
    ELSE upper(tk)

\* C25: in either module, normalizing a non-empty token returns the canonical
\* material of the module's alias table when the token, uppercased and stripped
\* of '.', spaces and hyphens, is an alias, and the token uppercased otherwise;
\* normalizing the returned value returns it again.
C25_NormalizationStripsAndLooksUp ==
    /\ Len(nm_out) >= 1 => nm_out[1] = TableLookup(nm_fn, token)
    /\ Len(nm_out) = 2 => nm_out[2] = nm_out[1]

\* the parts of C25 the code does keep: the vector module is as stated, and
\* both modules return their own result unchanged
C25_VectorStripsAndLooksUp ==
    /\ (nm_fn = "vector" /\ Len(nm_out) >= 1) => nm_out[1] = TableLookup("vector", token)
    /\ Len(nm_out) = 2 => nm_out[2] = nm_out[1]

\* ------------------------------------------------------------------------
\* C26
\* ------------------------------------------------------------------------
\* the orders in which n passes can be made
PassOrders(n) == {p \in [1..n -> 1..n] : \A i, j \in 1..n : p[i] = p[j] => i = j}

\* lines 92-110: the deduplication loop over a whole list
RECURSIVE DedupAll(_, _)
DedupAll(unique, runs) ==
    IF runs = <<>> THEN unique
    ELSE DedupAll(DedupIteration(unique, Head(runs)), Tail(runs))

\* lines 190-227: the loop of _merge_runs over a whole list
RECURSIVE MergeAll(_, _)
MergeAll(merged, runs) ==
    IF runs = <<>> THEN merged
    ELSE MergeAll(MergeIteration(merged, Head(runs)), Tail(runs))

\* lines 115-136: the pipes of a call that returns, from the two lists
PipesOf(vector, unique) ==
    IF vector # <<>> /\ unique # <<>>
    THEN aggregate_pipes(MergeAll(VectorDicts(vector), unique), "merged")
    ELSE IF unique # <<>> THEN aggregate_pipes(unique, "ocr")
         ELSE <<>>

\* length and material of every candidate of a list
LengthsAndMaterials(runs) ==
    [k \in 1..Len(runs) |-> <<runs[k].length_ft, runs[k].material>>]

\* the two lists hold the same elements the same number of times
SameElements(a, b) ==
    \A x \in Range(a) \cup Range(b) :
        Cardinality({k \in 1..Len(a) : a[k] = x}) = Cardinality({k \in 1..Len(b) : b[k] = x})

\* C26: the order of the DPI passes does not matter: with the same output of
\* every pass, making the passes in any other order gives the same
\* deduplicated candidates (lengths and materials) and the same aggregated
\* pipes.
C26_PassOrderDoesNotMatter ==
    \A p \in PassOrders(Len(passes)) :
        LET Agrees(unique) ==
                /\ (pc = "dedup" /\ loop_i > Len(ocr_runs)) =>
                      SameElements(LengthsAndMaterials(unique),
                                   LengthsAndMaterials(unique_runs))
                /\ (pc = "returned" /\ result.kind = "return") =>
                      SameElements(PipesOf(vector_runs, unique), result.pipes)
        IN  Agrees(DedupAll(<<>>, PassRuns([k \in 1..Len(passes) |-> passes[p[k]]])))

\* ------------------------------------------------------------------------
\* C27
\* ------------------------------------------------------------------------
\* the OCR candidate matches no entry of the merged list that came from the
\* vector runs
MatchesNoVectorEntry(merged, ocr_run) ==
    \A k \in 1..Len(merged) :
        merged[k].source = "vector" => ~MergeRule(merged[k], ocr_run)

\* C27: _merge_runs drops an OCR candidate as a duplicate only when it matches
\* an entry that came from the vector runs; a candidate with a length that
\* matches no such entry is appended to the merged list, so two OCR candidates
\* that survived the deduplication and match no vector entry are both in it.
C27_DroppedOnlyAgainstVectorEntries ==
    [][(pc = "merge" /\ loop_i' = loop_i + 1) =>
          LET ocr_run == ocr_runs[loop_i]
          IN  /\ Len(merged_runs') = Len(merged_runs) =>
                    \/ ~Truthy(ocr_run.length_ft)
                    \/ ~MatchesNoVectorEntry(merged_runs, ocr_run)
              /\ (Truthy(ocr_run.length_ft) /\ MatchesNoVectorEntry(merged_runs, ocr_run)) =>
                    /\ Len(merged_runs') = Len(merged_runs) + 1
                    /\ merged_runs'[Len(merged_runs')].raw = ocr_run.raw
                    /\ merged_runs'[Len(merged_runs')].source = "ocr"]_vars

\* ------------------------------------------------------------------------
\* C28
\* ------------------------------------------------------------------------
\* C28: when something raises during an OCR pass, wherever the pass stands,
\* its direct scanning done and candidates collected included, the pass
\* returns the empty list; in extract_sewer_pipes a pass that failed leaves
\* the candidates collected from the other passes as they were.
C28_RaisedPassReturnsNothing ==
    /\ [](ex_pc = "failed" => ex_runs = <<>>)
    /\ [][(ex_pc # "failed" /\ ex_pc' = "failed") =>
             /\ ex_runs' = <<>>
             /\ UNCHANGED <<pageVars, ex_lines>>]_vars
    /\ [][(pc = "ocr" /\ dpi_i' = dpi_i + 1 /\ passes'[dpi_i].failed) =>
             /\ passes'[dpi_i].runs = <<>>
             /\ ocr_runs' = ocr_runs
             /\ SubSeq(passes', 1, Len(passes)) = passes]_vars

\* a pass that raised in the recovery step, after direct scanning had found a
\* candidate and a query had been answered
C28_Witness ==
    /\ ex_pc = "failed"
    /\ ex_q > 1
    /\ OcrDirectRuns(ex_lines) # <<>>

\* a call in which the second pass failed after the first had returned a
\* candidate, which is still held
C28_WitnessOtherPasses ==
    /\ pc = "ocr"
    /\ Len(passes) = 2
    /\ passes[2].failed
    /\ passes[1].runs # <<>>
    /\ ocr_runs = passes[1].runs

\* ------------------------------------------------------------------------
\* C29
\* ------------------------------------------------------------------------
\* the material cue the recovery step reads from a line, after the repair
RecoveryCue(line) == OcrRecoveryMaterial(OcrRepair(line))

\* C29: the recovery step appends, and never removes or changes a candidate of
\* direct scanning; every candidate it appends has material DIP or PVC: the
\* cue of its line when there is one, DIP when there is none (the line then
\* has a diameter token), and a candidate recorded as PVC has a diameter
\* token.
C29_RecoveredMaterialIsDipOrPvc ==
    /\ []((ex_kind = "ocr" /\ ex_pc \in {"recover", "done"}) =>
            /\ Len(ex_runs) >= Len(OcrDirectRuns(ex_lines))
            /\ SubSeq(ex_runs, 1, Len(OcrDirectRuns(ex_lines))) = OcrDirectRuns(ex_lines))
    /\ [][(ex_kind = "ocr" /\ ex_pc = "recover" /\ ex_q' = ex_q + 1) =>
             /\ Len(ex_runs') >= Len(ex_runs)
             /\ SubSeq(ex_runs', 1, Len(ex_runs)) = ex_runs
             /\ \A k \in (Len(ex_runs) + 1)..Len(ex_runs') :
                   LET new == ex_runs'[k]
                   IN  /\ new.material \in {DIP, PVC}
                       /\ new.material = IF RecoveryCue(new.raw) # None
                                         THEN RecoveryCue(new.raw) ELSE DIP
                       /\ RecoveryCue(new.raw) = None => new.diameter_text # None
                       /\ new.material = PVC => new.diameter_text # None]_vars

\* the recovery step has appended a candidate to the one direct scanning
\* found, and recorded it with a material
C29_Witness ==
    /\ ex_kind = "ocr" /\ ex_pc \in {"recover", "done"}
    /\ OcrDirectRuns(ex_lines) # <<>>
    /\ Len(ex_runs) = Len(OcrDirectRuns(ex_lines)) + 1
    /\ ex_runs[Len(ex_runs)].material = DIP

\* what the recovery step appends in fact: a line direct scanning skipped,
\* recorded as DIP and without a diameter
C29_AppendedIsDipWithoutDiameter ==
    (ex_kind = "ocr" /\ ex_pc \in {"recover", "done"}) =>
        \A k \in (Len(OcrDirectRuns(ex_lines)) + 1)..Len(ex_runs) :
            /\ ex_runs[k].material = DIP
            /\ ex_runs[k].diameter_text = None
            /\ OcrRunOfLine(ex_runs[k].raw) = NoRun

\* ------------------------------------------------------------------------
\* C30
\* ------------------------------------------------------------------------
\* the runs of the aggregated list that have a length and no material
UnknownMaterialRuns(diameter) ==
    {k \in 1..Len(merged_runs) :
        /\ Truthy(merged_runs[k].length_ft)
        /\ GroupKey(merged_runs[k]) = <<diameter, None>>}

\* C30: every entry of the returned pipes has a count of 1 or more, the source
\* of the returned record and a material that is not null; the entry of the
\* runs without a material, and no other, carries the material "Unknown",
\* whatever its diameter_in, null included; no two entries have the same
\* diameter_in and material.
C30_PipesEntriesAreWellFormed ==
    (pc = "returned" /\ result.kind = "return") =>
        LET pipes == result.pipes
        IN  /\ \A k \in 1..Len(pipes) :
                  /\ pipes[k].count >= 1
                  /\ pipes[k].source = result.source
                  /\ pipes[k].material # None
                  /\ pipes[k].material \in {PVC, DIP, RCP, HDPE, Unknown}
                  /\ pipes[k].material = Unknown =>
                        UnknownMaterialRuns(pipes[k].diameter_in) # {}
            /\ \A r \in 1..Len(merged_runs) :
                  (Truthy(merged_runs[r].length_ft) /\ merged_runs[r].material = None) =>
                      \E k \in 1..Len(pipes) :
                          /\ pipes[k].material = Unknown
                          /\ pipes[k].diameter_in = ResolvedDiameter(merged_runs[r])
            /\ \A i, j \in 1..Len(pipes) :
                  (/\ pipes[i].diameter_in = pipes[j].diameter_in
                   /\ pipes[i].material = pipes[j].material) => i = j

\* a call has returned an entry for runs without a material next to an entry
\* without a diameter
C30_Witness ==
    /\ pc = "returned" /\ result.kind = "return"
    /\ \E i, j \in 1..Len(result.pipes) :
          /\ result.pipes[i].material = Unknown
          /\ result.pipes[i].count >= 1
          /\ result.pipes[j].diameter_in = NoDia
          /\ result.pipes[j].material = PVC

====
